---- MODULE Spec2Model ----
(***************************************************************************)
(* A model of the AI generation pipeline of the WISE backend: the two SSE  *)
(* relays (utils/sse_util.py and the closure of ai/endpoints.py), the      *)
(* generate-outline endpoint with its pre-stream checks, and the context   *)
(* window of ai/services.py.                                               *)
(***************************************************************************)
EXTENDS Integers, Sequences, FiniteSets, TLC

\* ------------------------------------------------------------------ bounds

\* The fragments a source produces before it has to end or fail.
MaxFrags == 3

\* The largest chapter number of the chapter tables the service is called on.
MaxChapter == 5

\* The largest context_size of a direct call of the service.
MaxContext == 5

\* The longest content (list of blocks) get_chapter_content is called on.
MaxBlocks == 3

\* The connections (two simultaneous client requests).
Conns == {"c1", "c2"}

\* The text fragments a model stream may produce: its n-th fragment is the
\* empty fragment "" or a text of its own, so that a fragment relayed out of
\* order, twice or to another place shows in the frames.
Texts == <<"f1", "f2", "f3", "f4", "f5", "f6">>
Frag(n) == {"", Texts[n]}

\* The messages of the errors a fragment source may raise.
Msgs == {"boom", "timeout"}

\* ---------------------------------------------------------------- database

\* The attributes of a Book row (the fields of the Book model).
BookFields ==
    {"id", "category", "title", "description", "cover_image_path",
     "create_time", "update_time", "status", "attributes"}

\* The attributes of a Chapter row (the fields of the Chapter model).
ChapterFields ==
    {"id", "book", "chapter_number", "title", "content", "create_time",
     "update_time", "status"}

\* The default of CustomUser.api_key: the empty string, never None.
ApiKeyDefault == ""

\* The stored books: book 1 is a draft, book 2 is being serialised.
Books == (1 :> [status |-> "draft"]) @@ (2 :> [status |-> "serializing"])

\* The stored chapters, as (book, chapter_number) rows.
Chapters == {<<1, 1>>, <<1, 2>>, <<2, 1>>, <<2, 2>>}

\* The accounts. api_key is ApiKeyDefault for an account that never set one.
Accounts ==
    [ann   |-> [is_active |-> TRUE,  is_staff |-> FALSE, is_superuser |-> FALSE,
                api_key |-> "sk-ann"],
     bob   |-> [is_active |-> TRUE,  is_staff |-> FALSE, is_superuser |-> FALSE,
                api_key |-> ApiKeyDefault],
     carol |-> [is_active |-> FALSE, is_staff |-> FALSE, is_superuser |-> FALSE,
                api_key |-> "sk-carol"],
     dave  |-> [is_active |-> FALSE, is_staff |-> FALSE, is_superuser |-> FALSE,
                api_key |-> ApiKeyDefault]]

\* The UserBookRelation rows, as (book, user, creative_role).
Relations ==
    {<<1, "ann", "author">>, <<1, "carol", "co_author">>,
     <<1, "dave", "reader">>, <<2, "ann", "author">>}

\* The caller of a request: an account, or the anonymous user.
Anonymous == "anonymous"
Callers == DOMAIN Accounts \cup {Anonymous}

\* ------------------------------------------------------------------ frames

\* json.dumps({key: value}, ensure_ascii=False): the text of a JSON object of
\* one member. The text is kept as its parts; the value is the string as JSON
\* writes it, between quotes.
JsonDumps(key, value) == <<"{", key, ":", <<"str", value>>, "}">>

\* What a relay yields: the SSE event field ("" when the frame has none), the
\* data field, and whether the frame is text or UTF-8 bytes.
Frame(event, data, enc) == [event |-> event, data |-> data, enc |-> enc]

\* f"data: {data_json}\n\n" for a chunk.
ContentFrame(chunk, enc) == Frame("", JsonDumps("content", chunk), enc)

\* f"event: error\ndata: {error_data}\n\n" for str(e).
ErrorFrame(msg, enc) == Frame("error", JsonDumps("error", msg), enc)

\* 'event: complete\ndata: {"status": "done"}\n\n' (the endpoint's relay).
CompleteFrameA == Frame("complete", <<"{", "status", ":", <<"str", "done">>, "}">>, "str")

\* "data: [DONE]\n\n" (the relay of sse_util).
CompleteFrameB == Frame("", <<"[DONE]">>, "bytes")

\* ----------------------------------------------------------------- sources

\* What pulling the next item of a fragment source gives.
Chunk(f) == [kind |-> "chunk", chunk |-> f, msg |-> ""]
End == [kind |-> "end", chunk |-> "", msg |-> ""]
Raise(m) == [kind |-> "raise", chunk |-> "", msg |-> m]
\* Nothing pulled yet that ended the source.
NoOutcome == [kind |-> "none", chunk |-> "", msg |-> ""]

\* A generator that was handed to create_sse_response: any finite sequence of
\* fragments, ended by exhaustion or by an exception. produced is what it has
\* yielded so far; once it has ended, every further pull finds it exhausted.
GeneratorNext(produced, ended) ==
    IF ended THEN {End}
    ELSE {Chunk(f) : f \in IF Len(produced) < MaxFrags
                            THEN Frag(Len(produced) + 1) ELSE {}}
            \cup {End} \cup {Raise(m) : m \in Msgs}

\* ------------------------------------------------------------------ relays

\* Where a relay goes on what it has pulled: the frame it yields (<<>> for
\* none) and the relay state once the frame is out. "raised" is an exception
\* leaving the generator.
Skip == [pc |-> "loop", out |-> <<>>, to |-> "STREAMING"]
Yield(frame, to) == [pc |-> "yield", out |-> <<frame>>, to |-> to]
Propagate == [pc |-> "raised", out |-> <<>>, to |-> "STREAMING"]

\* Faulty variants of _event_stream, kept to show what each property rules out.
_event_stream_NoSkip(outcome) ==
    CASE outcome.kind = "chunk" -> Yield(ContentFrame(outcome.chunk, "bytes"), "STREAMING")
      [] outcome.kind = "end" -> Yield(CompleteFrameB, "DONE")
      [] outcome.kind = "raise" -> Yield(ErrorFrame(outcome.msg, "bytes"), "ERRORED")

_event_stream_FixedMessage(outcome) ==
    CASE outcome.kind = "chunk" ->
            IF outcome.chunk # ""
            THEN Yield(ContentFrame(outcome.chunk, "bytes"), "STREAMING")
            ELSE Skip
      [] outcome.kind = "end" -> Yield(CompleteFrameB, "DONE")
      [] outcome.kind = "raise" -> Yield(ErrorFrame("error", "bytes"), "ERRORED")

_event_stream_Uncaught(outcome) ==
    CASE outcome.kind = "chunk" ->
            IF outcome.chunk # ""
            THEN Yield(ContentFrame(outcome.chunk, "bytes"), "STREAMING")
            ELSE Skip
      [] outcome.kind = "end" -> Yield(CompleteFrameB, "DONE")
      [] outcome.kind = "raise" -> Propagate

\* _event_stream: one turn of `async for chunk in generator` inside the try.
_event_stream(outcome) ==
    CASE outcome.kind = "chunk" ->
            IF outcome.chunk # ""
            THEN Yield(ContentFrame(outcome.chunk, "bytes"), "STREAMING")
            ELSE Skip
      [] outcome.kind = "end" -> Yield(CompleteFrameB, "DONE")
      [] outcome.kind = "raise" -> Yield(ErrorFrame(outcome.msg, "bytes"), "ERRORED")

\* A faulty variant of event_stream: an empty chunk gets a frame too.
event_stream_NoSkip(outcome) ==
    CASE outcome.kind = "chunk" -> Yield(ContentFrame(outcome.chunk, "str"), "STREAMING")
      [] outcome.kind = "end" -> Yield(CompleteFrameA, "DONE")
      [] outcome.kind = "raise" -> Yield(ErrorFrame(outcome.msg, "str"), "ERRORED")

\* event_stream of the generate_outline endpoint: one turn of
\* `for chunk in outline_chunks` inside the try.
event_stream(outcome) ==
    CASE outcome.kind = "chunk" ->
            IF outcome.chunk # ""
            THEN Yield(ContentFrame(outcome.chunk, "str"), "STREAMING")
            ELSE Skip
      [] outcome.kind = "end" -> Yield(CompleteFrameA, "DONE")
      [] outcome.kind = "raise" -> Yield(ErrorFrame(outcome.msg, "str"), "ERRORED")

\* ------------------------------------------------------------- permissions

\* is_active(user): AnonymousUser.is_active is False.
is_active(user) == IF user = Anonymous THEN FALSE ELSE Accounts[user].is_active

\* is_admin(user): user.is_staff or user.is_superuser, both False when anonymous.
is_admin(user) ==
    IF user = Anonymous THEN FALSE
    ELSE Accounts[user].is_staff \/ Accounts[user].is_superuser

\* UserBookRelation.objects.filter(book=book, user=user, creative_role__in=roles).exists()
HasRole(user, book_id, roles) ==
    \E r \in Relations : r[1] = book_id /\ r[2] = user /\ r[3] \in roles

is_author(user, book_id) == HasRole(user, book_id, {"author"})
is_co_author(user, book_id) == HasRole(user, book_id, {"co_author"})
is_editor(user, book_id) == HasRole(user, book_id, {"editor"})

\* A relation filter on user=AnonymousUser() raises TypeError (the anonymous
\* user is no model instance and refuses int()); can_view reaches the filters
\* for a draft book and a user who is neither active nor an administrator.
can_view_raises(user, book_id) ==
    /\ Books[book_id].status = "draft"
    /\ ~is_active(user)
    /\ ~is_admin(user)
    /\ user = Anonymous

\* can_view(user, book), where it returns.
can_view(user, book_id) ==
    IF Books[book_id].status # "draft" THEN TRUE
    ELSE IF is_active(user) THEN FALSE
    ELSE \/ is_admin(user)
         \/ is_author(user, book_id)
         \/ is_co_author(user, book_id)
         \/ is_editor(user, book_id)

\* ----------------------------------------------------------------- service

\* Python's None.
None == "None"

\* construct_llm is `async def`: the call made without await builds nothing
\* and raises nothing, it returns a coroutine object.
construct_llm(api_key) == [type |-> "coroutine", api_key |-> api_key]

\* generate_outline of ai/chains is `async def` with a yield: calling it
\* returns an async generator, which a plain `for` cannot iterate.
OutlineChainType == "async_generator"

\* A faulty variant of Max: the start of the window is not clamped.
Max_Unclamped(a, b) == b

\* max(a, b)
Max(a, b) == IF a >= b THEN a ELSE b

\* The ascending sequence of a finite set of integers.
RECURSIVE Ascending(_)
Ascending(S) ==
    IF S = {} THEN <<>>
    ELSE LET least == CHOOSE x \in S : \A y \in S : x <= y
         IN <<least>> \o Ascending(S \ {least})

\* A faulty variant of get_chapters_by_range: the book is not filtered on.
get_chapters_by_range_AnyBook(stored, book, start, end) ==
    LET numbers == {row[2] : row \in {r \in stored : r[2] >= start /\ r[2] < end}}
        asc == Ascending(numbers)
    IN [i \in 1..Len(asc) |-> <<book, asc[i]>>]

\* ChapterService.get_chapters_by_range(book, start, end): the chapters of the
\* book with start <= chapter_number < end, ordered by chapter_number. A
\* stored chapter is a (book, chapter_number) row.
get_chapters_by_range(stored, book, start, end) ==
    LET numbers == {row[2] : row \in {r \in stored : r[1] = book /\ r[2] >= start /\ r[2] < end}}
        asc == Ascending(numbers)
    IN [i \in 1..Len(asc) |-> <<book, asc[i]>>]

\* chapter.outline of a stored chapter: a text of its own per chapter.
OutlineOf(row) == "outline " \o ToString(row[1]) \o "." \o ToString(row[2])

\* chapter.content of a stored chapter: a list of blocks, each a dict or not.
Block(type, index, content) ==
    [isdict |-> TRUE, map |-> [type |-> type, index |-> index, content |-> content]]
BlockNoIndex(type, content) ==
    [isdict |-> TRUE, map |-> [type |-> type, content |-> content]]
NotADict == [isdict |-> FALSE, map |-> <<>>]
\* The value of the content field: a list of blocks, or None.
List(items) == [isnone |-> FALSE, items |-> items]
NoneContent == [isnone |-> TRUE, items |-> <<>>]
\* The content of the stored chapters: chapter 1 is empty, the others hold a
\* text of their own.
ContentOf(row) ==
    CASE row[2] = 1 -> List(<<>>)
      [] row[2] = 2 -> List(<<Block("text", 1, "B"), Block("text", 0, "A"),
                              Block("image", 2, "X")>>)
      [] row[2] = 3 -> List(<<Block("text", 1, "C"), BlockNoIndex("text", "D"), NotADict>>)
      [] OTHER -> List(<<Block("text", 0,
                               "text " \o ToString(row[1]) \o "." \o ToString(row[2]))>>)

\* dict.get(key, default)
Get(map, key, default) == IF key \in DOMAIN map THEN map[key] ELSE default

\* A faulty variant of SortByIndex: an item goes before the items of its key.
RECURSIVE SortByIndex_Unstable(_)
SortByIndex_Unstable(items) ==
    IF items = <<>> THEN <<>>
    ELSE LET n == Len(items)
             last == items[n]
             front == SortByIndex_Unstable(SubSeq(items, 1, n - 1))
             key(x) == Get(x.map, "index", 0)
             at == Cardinality({i \in 1..Len(front) : key(front[i]) < key(last)})
         IN SubSeq(front, 1, at) \o <<last>> \o SubSeq(front, at + 1, Len(front))

\* list.sort(key=lambda x: x.get("index", 0)): a stable sort, each item put
\* behind the items before it whose key is not larger.
RECURSIVE SortByIndex(_)
SortByIndex(items) ==
    IF items = <<>> THEN <<>>
    ELSE LET n == Len(items)
             last == items[n]
             front == SortByIndex(SubSeq(items, 1, n - 1))
             key(x) == Get(x.map, "index", 0)
             at == Cardinality({i \in 1..Len(front) : key(front[i]) <= key(last)})
         IN SubSeq(front, 1, at) \o <<last>> \o SubSeq(front, at + 1, Len(front))

RECURSIVE Join(_)
Join(texts) == IF texts = <<>> THEN "" ELSE Head(texts) \o Join(Tail(texts))

\* Faulty variants of get_chapter_content: the blocks are joined as stored; the
\* blocks of every type are joined.
get_chapter_content_Unsorted(content) ==
    IF content.isnone \/ content.items = <<>> THEN ""
    ELSE LET text_items == SelectSeq(content.items,
                 LAMBDA item : item.isdict /\ Get(item.map, "type", None) = "text")
         IN Join([i \in 1..Len(text_items) |-> Get(text_items[i].map, "content", "")])

get_chapter_content_Unfiltered(content) ==
    IF content.isnone \/ content.items = <<>> THEN ""
    ELSE LET text_items == SelectSeq(content.items, LAMBDA item : item.isdict)
             sorted == SortByIndex(text_items)
         IN Join([i \in 1..Len(sorted) |-> Get(sorted[i].map, "content", "")])

\* ChapterService.get_chapter_content(chapter), on chapter.content: `not
\* chapter_content` is true of None and of the empty list.
get_chapter_content(content) ==
    IF content.isnone \/ content.items = <<>> THEN ""
    ELSE LET text_items == SelectSeq(content.items,
                 LAMBDA item : item.isdict /\ Get(item.map, "type", None) = "text")
             sorted == SortByIndex(text_items)
         IN Join([i \in 1..Len(sorted) |-> Get(sorted[i].map, "content", "")])

\* ------------------------------------------------------------------ chains

\* A message of a prompt: its role, which text of the chain it is (a fixed
\* text or an f-string), the chapter number the f-string names (0 for none)
\* and the text put into it.
Message(role, says, number, text) ==
    [role |-> role, says |-> says, number |-> number, text |-> text]
SystemMessage(says) == Message("system", says, 0, "")
HumanMessage(says, number, text) == Message("user", says, number, text)
AIMessage(says, text) == Message("assistant", says, 0, text)

\* book.settings, a text of its own per book.
BookSettings(book) == "settings " \o ToString(book)

\* The first three messages of both chains: the system prompt, the settings
\* as a user message, the acknowledgement of the assistant.
PromptHead(system_prompt, settings) ==
    <<SystemMessage(system_prompt),
      HumanMessage("settings", 0, settings),
      AIMessage("acknowledgement", "")>>

\* A faulty variant of generate_outline_chain: the history runs from the newest
\* chapter back to the oldest.
generate_outline_chain_Reversed(settings, current_number, previous_outlines) ==
    LET context_size == Len(previous_outlines)
        history == [j \in 1..(2 * context_size) |->
            IF j % 2 = 1
            THEN HumanMessage("outline_request",
                              current_number - context_size + ((j + 1) \div 2 - 1), "")
            ELSE AIMessage("content", previous_outlines[context_size + 1 - j \div 2])]
    IN PromptHead("generate_outline_prompt", settings)
         \o history
         \o <<HumanMessage("outline_request", current_number, "")>>

\* generate_outline of ai/chains, its prompt: the history of one user message
\* and one assistant message per previous outline, between the head and the
\* request for the outline of current_number.
generate_outline_chain(settings, current_number, previous_outlines) ==
    LET context_size == Len(previous_outlines)
        history == [j \in 1..(2 * context_size) |->
            IF j % 2 = 1
            THEN HumanMessage("outline_request",
                              current_number - context_size + ((j + 1) \div 2 - 1), "")
            ELSE AIMessage("content", previous_outlines[j \div 2])]
    IN PromptHead("generate_outline_prompt", settings)
         \o history
         \o <<HumanMessage("outline_request", current_number, "")>>

\* A faulty variant of generate_chapter_chain: the assistant turns are taken
\* from the newest chapter backwards.
generate_chapter_chain_Misaligned(settings, current_number, previous_outlines, previous_chapters, current_outline) ==
    LET context_size == Len(previous_chapters)
        history == [j \in 1..(2 * context_size) |->
            IF j % 2 = 1
            THEN HumanMessage("chapter_request",
                              current_number - context_size + ((j + 1) \div 2 - 1),
                              previous_outlines[(j + 1) \div 2])
            ELSE AIMessage("content", previous_chapters[context_size + 1 - j \div 2])]
    IN PromptHead("generate_chapter_prompt", settings)
         \o history
         \o <<HumanMessage("chapter_request", current_number, current_outline)>>

\* generate_chapter of ai/chains, its prompt: the history of one user message
\* carrying a previous outline and one assistant message carrying the text of
\* that chapter, per previous chapter, then the request carrying the outline
\* of current_number.
generate_chapter_chain(settings, current_number, previous_outlines, previous_chapters, current_outline) ==
    LET context_size == Len(previous_chapters)
        history == [j \in 1..(2 * context_size) |->
            IF j % 2 = 1
            THEN HumanMessage("chapter_request",
                              current_number - context_size + ((j + 1) \div 2 - 1),
                              previous_outlines[(j + 1) \div 2])
            ELSE AIMessage("content", previous_chapters[j \div 2])]
    IN PromptHead("generate_chapter_prompt", settings)
         \o history
         \o <<HumanMessage("chapter_request", current_number, current_outline)>>

\* Text the model streams is a sequence of characters.
Whitespace == {" ", "\n", "\t"}

RECURSIVE lstrip(_)
lstrip(text) ==
    IF text # <<>> /\ Head(text) \in Whitespace THEN lstrip(Tail(text)) ELSE text

RECURSIVE rstrip(_)
rstrip(text) ==
    IF text # <<>> /\ text[Len(text)] \in Whitespace
    THEN rstrip(SubSeq(text, 1, Len(text) - 1))
    ELSE text

\* A faulty variant of strip: the whitespace inside the text goes too.
strip_Everywhere(text) == SelectSeq(text, LAMBDA ch : ch \notin Whitespace)

\* str.strip()
strip(text) == rstrip(lstrip(text))

\* The chunks the model may stream to the chapter chain: whitespace alone, a
\* letter, a text with whitespace at both ends and inside.
StreamChunks == {<<" ">>, <<"a">>, <<"\n", "b", " ", "c", "\t">>}

\* What a pull on the model stream gives, its text a sequence of characters.
TextChunk(text) == [kind |-> "chunk", chunk |-> text, msg |-> ""]
TextEnd == [kind |-> "end", chunk |-> <<>>, msg |-> ""]
TextRaise(m) == [kind |-> "raise", chunk |-> <<>>, msg |-> m]
NoTextOutcome == [kind |-> "none", chunk |-> <<>>, msg |-> ""]

\* What the next pull on chain.stream(input_data) gives: a chunk, the end of
\* the stream, or an exception of the provider or the transport.
ModelStreamNext(streamed) ==
    (IF Len(streamed) < MaxFrags THEN {TextChunk(ch) : ch \in StreamChunks} ELSE {})
        \cup {TextEnd} \cup {TextRaise(m) : m \in Msgs}

\* A call of a chain: where it stands ("stream": in its loop over the model
\* stream), its prompt, the chunks it has pulled and how the stream ended,
\* the text it has accumulated, and what it returned or raised.
ChainCall(at, mode, messages) ==
    [pc |-> at, mode |-> mode, messages |-> messages, streamed |-> <<>>,
     ending |-> NoTextOutcome, result |-> <<>>, returned |-> <<>>, raised |-> ""]
NoChain == ChainCall("idle", "", <<>>)

\* A faulty variant of generate_chapter_loop: a failure of the stream ends the
\* loop and the text so far is returned.
generate_chapter_loop_Swallow(call, outcome) ==
    CASE outcome.kind = "chunk" ->
            [call EXCEPT !.streamed = Append(@, outcome.chunk),
                         !.result = @ \o outcome.chunk]
      [] outcome.kind = "end" ->
            [call EXCEPT !.pc = "returned", !.returned = strip(call.result)]
      [] outcome.kind = "raise" ->
            [call EXCEPT !.pc = "returned", !.returned = strip(call.result)]

\* The loop of generate_chapter over chain.stream(input_data) and its return:
\* a chunk is added to result, the end of the stream returns result.strip(),
\* an exception of the stream leaves the function.
generate_chapter_loop(call, outcome) ==
    CASE outcome.kind = "chunk" ->
            [call EXCEPT !.streamed = Append(@, outcome.chunk),
                         !.result = @ \o outcome.chunk]
      [] outcome.kind = "end" ->
            [call EXCEPT !.pc = "returned", !.returned = strip(call.result)]
      [] outcome.kind = "raise" ->
            [call EXCEPT !.pc = "raised", !.raised = outcome.msg]

\* generate_chapter run on a whole model stream.
RECURSIVE generate_chapter_run(_, _)
generate_chapter_run(call, stream) ==
    IF stream = <<>> \/ call.pc # "stream" THEN call
    ELSE generate_chapter_run(generate_chapter_loop(call, Head(stream)), Tail(stream))

\* ------------------------------------------------------- service, its calls

\* A faulty variant of NeedsHistory: the history is looked up for chapter 1 too.
NeedsHistory_Always(current_number) == TRUE

\* `if current_number != 1`: whether the service looks up previous chapters.
NeedsHistory(current_number) == current_number # 1

\* What a call of the service leaves: the exception it raised ("" for none),
\* the range lookups it made, and the history it built for the chain.
ServiceResult(raised, range_calls, previous_outlines, previous_chapters) ==
    [raised |-> raised, range_calls |-> range_calls,
     previous_outlines |-> previous_outlines, previous_chapters |-> previous_chapters]

\* BookAiService.generate_outline(llm, book, chapter, context_size), run to its
\* end or to the exception that ends it. ai_fields says whether the objects
\* passed carry the attributes the service reads (book.settings,
\* chapter.outline); stored is the chapter table.
BookAiService_generate_outline(stored, ai_fields, book, current_number, context_size) ==
    IF ~ai_fields
    THEN ServiceResult("'Book' object has no attribute 'settings'", <<>>, <<>>, <<>>)
    ELSE LET start_chapter == Max(1, current_number - context_size)
             end_chapter == current_number
             window == IF NeedsHistory(current_number)
                       THEN get_chapters_by_range(stored, book, start_chapter, end_chapter)
                       ELSE <<>>
             calls == IF NeedsHistory(current_number)
                      THEN <<<<book, start_chapter, end_chapter>>>>
                      ELSE <<>>
             previous_outlines == [i \in 1..Len(window) |-> OutlineOf(window[i])]
         IN ServiceResult(IF OutlineChainType = "async_generator"
                          THEN "'async_generator' object is not iterable" ELSE "",
                          calls, previous_outlines, <<>>)

\* BookAiService.generate_chapter(llm, book, chapter, context_size), up to its
\* call of the chapter chain.
BookAiService_generate_chapter(stored, ai_fields, book, current_number, context_size) ==
    IF ~ai_fields
    THEN ServiceResult("'Book' object has no attribute 'settings'", <<>>, <<>>, <<>>)
    ELSE LET start_chapter == Max(1, current_number - context_size)
             end_chapter == current_number
             window == IF NeedsHistory(current_number)
                       THEN get_chapters_by_range(stored, book, start_chapter, end_chapter)
                       ELSE <<>>
             calls == IF NeedsHistory(current_number)
                      THEN <<<<book, start_chapter, end_chapter>>>>
                      ELSE <<>>
             previous_outlines == [i \in 1..Len(window) |-> OutlineOf(window[i])]
             previous_chapters ==
                 [i \in 1..Len(window) |-> get_chapter_content(ContentOf(window[i]))]
         IN ServiceResult("", calls, previous_outlines, previous_chapters)

\* BookAiService.generate_chapter from its call of the chapter chain on: the
\* chain is handed the settings, the histories and chapter.outline as read
\* before the loop, and what it returns or raises is the service's. r is what
\* the service built, stream what the model streams.
BookAiService_generate_chapter_chain(book, current_number, r, stream) ==
    IF r.raised # "" THEN NoChain
    ELSE generate_chapter_run(
             ChainCall("stream", "chapter",
                 generate_chapter_chain(BookSettings(book), current_number,
                     r.previous_outlines, r.previous_chapters,
                     OutlineOf(<<book, current_number>>))),
             stream)

\* The next() of the generator BookAiService.generate_outline(...) that the
\* endpoint iterates, called with rows of the database: its first next() runs
\* the whole body, which ends in an exception before any fragment.
BookAiService_generate_outline_next(stored, request, produced, ended) ==
    IF ended THEN {End}
    ELSE LET r == BookAiService_generate_outline(stored, "settings" \in BookFields,
                      request.book_id, request.chapter_number, request.context_size)
         IN IF r.raised # "" THEN {Raise(r.raised)} ELSE GeneratorNext(produced, ended)

\* ---------------------------------------------------------------- endpoint

\* The request data of GenerateOutlineInSchema the model draws.
BookIds == {1, 2, 3}
ChapterNumbers == {1, 2, 3}
ContextSizes == {3}

\* raise Error(status, field, ...) and the streaming response, as responses.
Error(status, field) == [status |-> status, field |-> field]
Streaming == [status |-> 200, field |-> "stream"]
\* An exception that is no Error leaves the handler: a server error.
Uncaught(exc) == [status |-> 500, field |-> exc]
NoResponse == [status |-> 0, field |-> ""]

\* user.api_key; AnonymousUser has no such attribute.
HasApiKeyAttr(user) == user # Anonymous

\* The pre-stream part of the generate_outline endpoint.
generate_outline_checks(stored, user, book_id, chapter_number) ==
    IF book_id \notin DOMAIN Books THEN Error(404, "book_id")
    ELSE IF can_view_raises(user, book_id) THEN Uncaught("TypeError")
    ELSE IF ~can_view(user, book_id) THEN Error(403, "permission")
    ELSE IF <<book_id, chapter_number>> \notin stored THEN Error(404, "chapter_number")
    ELSE IF ~HasApiKeyAttr(user) THEN Uncaught("AttributeError")
    ELSE IF Accounts[user].api_key = None THEN Error(400, "api_key")
    ELSE Streaming

\* ------------------------------------------------------------------- state

VARIABLES
    pc,         \* per connection: where its request or relay generator stands
    impl,       \* per connection: which relay serves it
    relay,      \* per connection: NONE, STREAMING, DONE or ERRORED
    out,        \* per connection: the frames yielded and not yet written
    frames,     \* per connection: the frames written to the response, in order
    produced,   \* per connection: the fragments its source has produced
    ending,     \* per connection: how its source ended
    req,        \* per connection: the request data and caller
    resp,       \* per connection: the response of the endpoint
    llm,        \* per connection: what construct_llm returned
    chapters,   \* the chapter table: (book, chapter_number) rows
    svc,        \* a direct call of BookAiService and what it left
    chain,      \* a call of a generation chain: its prompt, its model stream
    extract,    \* a direct call of ChapterService.get_chapter_content
    op,         \* the last create, update or delete of a chapter
    race,       \* chapter rows by id and the transactions writing them
    account,    \* the user table, the mail sent and the last account request
    covers,     \* the book rows, the cover files and the book transactions
    pair,       \* the two relays side by side on one source
    site        \* the last request to a chapter endpoint and its response

relayVars == <<pc, impl, relay, out, frames, produced, ending, req, resp, llm>>
callVars == <<chain, extract, op>>
moreVars == <<race, account, covers, pair, site>>
oldVars == <<pc, impl, relay, out, frames, produced, ending, req, resp, llm, chapters, svc,
             chain, extract, op>>
vars == <<pc, impl, relay, out, frames, produced, ending, req, resp, llm, chapters, svc,
          chain, extract, op, race, account, covers, pair, site>>

NoRequest == [user |-> "", book_id |-> 0, chapter_number |-> 0, context_size |-> 0]
NoLlm == [type |-> "none", api_key |-> ""]
NoCall == [pc |-> "idle", mode |-> "", ai_fields |-> FALSE, book |-> 0,
           current_number |-> 0, context_size |-> 0,
           result |-> ServiceResult("", <<>>, <<>>, <<>>)]
NoExtract == [pc |-> "idle", content |-> NoneContent, returned |-> ""]
\* The chapter_number of the data of a create or an update: given, or None.
Number(n) == [given |-> TRUE, chapter_number |-> n]
NoNumber == [given |-> FALSE, chapter_number |-> 0]
NoOp == [name |-> "", book |-> 0, chapter_number |-> 0, data |-> NoNumber, raised |-> ""]

\* The chapter table with its primary keys: Chapter has an auto id, and
\* unique_together makes (book, chapter_number) unique in the database.
MaxRaceNumber == 3
MaxChapterId == Cardinality(Chapters) + 1
Procs == {"p1", "p2"}
RaceNumbers == 1..MaxRaceNumber
ChapterRow(id, book, n) == [id |-> id, book |-> book, chapter_number |-> n]
ChapterId(row) ==
    Cardinality({r \in Chapters : r[1] < row[1] \/ (r[1] = row[1] /\ r[2] < row[2])}) + 1
ChapterRows == {ChapterRow(ChapterId(r), r[1], r[2]) : r \in Chapters}
NoChapter == ChapterRow(0, 0, 0)
NoProc == [pc |-> "idle", name |-> "", chapter |-> NoChapter, data |-> NoNumber,
           raised |-> ""]
NoRace == [rows |-> ChapterRows, next_id |-> Cardinality(Chapters) + 1,
           proc |-> [p \in Procs |-> NoProc]]

\* The user table of the account endpoints: the accounts, with a primary key,
\* an e-mail address, a username and a password each.
UserPk == [ann |-> 1, bob |-> 2, carol |-> 3, dave |-> 4]
Email(name) == name \o "@wise"
UserRow(pk, email, username, password, active) ==
    [pk |-> pk, email |-> email, username |-> username, password |-> password,
     is_active |-> active]
UserRows ==
    {UserRow(UserPk[a], Email(a), a, "pw0", Accounts[a].is_active) : a \in DOMAIN Accounts}
\* The authentication backends a deployment may name in its settings: the
\* default of Django, which does not authenticate an inactive user, and the
\* one that leaves the is_active test to the caller.
Backends == {"ModelBackend", "AllowAllUsersModelBackend"}
\* str(True), str(False)
PyBool(b) == IF b THEN "True" ELSE "False"
\* The timestamp of a token: the requests of a run fall within the timeout.
Now == 0
\* A token: its timestamp, and the hash value it was made of under the secret
\* of the server; a token made without the secret carries no valid digest.
Token(ts, value) == [ts |-> ts, keyed |-> TRUE, value |-> value]
Forged(ts, value) == [ts |-> ts, keyed |-> FALSE, value |-> value]
NoToken == [ts |-> 0, keyed |-> FALSE, value |-> ""]

\* A faulty variant of _make_hash_value: the activation state is left out.
AccountActivationTokenGenerator_make_hash_value_NoState(user, timestamp) ==
    ToString(user.pk) \o ToString(timestamp)

\* AccountActivationTokenGenerator._make_hash_value(user, timestamp)
AccountActivationTokenGenerator_make_hash_value(user, timestamp) ==
    ToString(user.pk) \o ToString(timestamp) \o PyBool(user.is_active)

\* PasswordResetTokenGenerator._make_hash_value(user, timestamp), of an
\* account that never logged in through the session framework.
PasswordResetTokenGenerator_make_hash_value(user, timestamp) ==
    ToString(user.pk) \o user.password \o ToString(timestamp) \o user.email

\* account_activation_token.make_token(user), .check_token(user, token)
account_activation_token_make_token(user) ==
    Token(Now, AccountActivationTokenGenerator_make_hash_value(user, Now))
account_activation_token_check_token(user, token) ==
    /\ token.keyed
    /\ token.value = AccountActivationTokenGenerator_make_hash_value(user, token.ts)

\* password_reset_token.make_token(user)
password_reset_token_make_token(user) ==
    Token(Now, PasswordResetTokenGenerator_make_hash_value(user, Now))

\* authenticate(username=, password=): the accounts the backend accepts for
\* the credentials, none or one. ModelBackend refuses an inactive account.
authenticate(users, backend, username, password) ==
    {u \in users : /\ u.username = username
                   /\ u.password = password
                   /\ (backend = "ModelBackend" => u.is_active)}

NoReply == [name |-> "", subject |-> "", uid |-> 0, token |-> NoToken, status |-> 0,
            field |-> "", jwt |-> FALSE, registered |-> FALSE, active |-> FALSE,
            mailed |-> TRUE, changed |-> FALSE]
\* The answer of an account endpoint to a request.
Reply(name, subject, status, field) ==
    [NoReply EXCEPT !.name = name, !.subject = subject, !.status = status,
                    !.field = field]
NoAccount == [users |-> UserRows, next_pk |-> Cardinality(UserRows) + 1, mail |-> {},
              used |-> {}, backend |-> "ModelBackend", last |-> NoReply]
\* The book table with its cover paths, and the cover files in the media
\* directory. An uploaded image is its content; images of one content are one.
MaxBookId == Cardinality(DOMAIN Books) + 1
Images == {"imgA", "imgB"}
\* path_util.generate_hash_path(file): the path made of the md5 of the content.
generate_hash_path(image) == "md5-" \o image \o ".png"
BookRow(id, path) == [id |-> id, cover_image_path |-> path]
BookRows == {BookRow(1, generate_hash_path("imgA")), BookRow(2, "")}
NoBook == BookRow(0, "")
NoBookProc == [pc |-> "idle", name |-> "", book |-> NoBook, path |-> ""]
NoCovers == [books |-> BookRows, next_id |-> Cardinality(DOMAIN Books) + 1,
             files |-> {generate_hash_path("imgA")},
             proc |-> [p \in Procs |-> NoBookProc]]
\* The two relays side by side: one fragment source, and per relay where its
\* generator stands, its state, the frame it has yielded and the frames out.
Impls == {"ai_endpoint", "sse_util"}
NoSide == [pc |-> "begin", relay |-> "STREAMING", out |-> <<>>, frames |-> <<>>]
NoPair == [produced |-> <<>>, ending |-> NoOutcome, side |-> [i \in Impls |-> NoSide]]
NoSite == [name |-> "", user |-> "", book_id |-> 0, chapter_number |-> 0,
           stored |-> FALSE, answer |-> NoResponse]

Init ==
    /\ pc = [c \in Conns |-> "idle"]
    /\ impl = [c \in Conns |-> "none"]
    /\ relay = [c \in Conns |-> "NONE"]
    /\ out = [c \in Conns |-> <<>>]
    /\ frames = [c \in Conns |-> <<>>]
    /\ produced = [c \in Conns |-> <<>>]
    /\ ending = [c \in Conns |-> NoOutcome]
    /\ req = [c \in Conns |-> NoRequest]
    /\ resp = [c \in Conns |-> NoResponse]
    /\ llm = [c \in Conns |-> NoLlm]
    /\ chapters = Chapters
    /\ svc = NoCall
    /\ chain = NoChain
    /\ extract = NoExtract
    /\ op = NoOp
    /\ race = NoRace
    /\ account = NoAccount
    /\ covers = NoCovers
    /\ pair = NoPair
    /\ site = NoSite

\* ----------------------------------------------------------------- actions

\* The generate_outline endpoint: the checks, then either an error response
\* or a StreamingHttpResponse over event_stream(), not yet started.
generate_outline(c) ==
    /\ pc[c] = "idle"
    /\ \E user \in Callers, book_id \in BookIds,
          chapter_number \in ChapterNumbers, context_size \in ContextSizes :
          LET answer == generate_outline_checks(chapters, user, book_id, chapter_number) IN
          /\ req' = [req EXCEPT ![c] = [user |-> user, book_id |-> book_id,
                                        chapter_number |-> chapter_number,
                                        context_size |-> context_size]]
          /\ resp' = [resp EXCEPT ![c] = answer]
          /\ pc' = [pc EXCEPT ![c] = IF answer = Streaming THEN "begin" ELSE "rejected"]
          /\ impl' = [impl EXCEPT ![c] = IF answer = Streaming THEN "ai_endpoint" ELSE @]
          /\ relay' = [relay EXCEPT ![c] = IF answer = Streaming THEN "STREAMING" ELSE @]
    /\ UNCHANGED <<out, frames, produced, ending, llm, chapters, svc, callVars, moreVars>>

\* create_sse_response(generator): a StreamingHttpResponse over
\* _event_stream(generator), not yet started.
create_sse_response(c) ==
    /\ pc[c] = "idle"
    /\ pc' = [pc EXCEPT ![c] = "begin"]
    /\ impl' = [impl EXCEPT ![c] = "sse_util"]
    /\ relay' = [relay EXCEPT ![c] = "STREAMING"]
    /\ resp' = [resp EXCEPT ![c] = Streaming]
    /\ UNCHANGED <<out, frames, produced, ending, req, llm, chapters, svc, callVars, moreVars>>

\* The response starts its generator, which enters the try. The endpoint's
\* relay first calls construct_llm and BookAiService.generate_outline there:
\* the one returns a coroutine, the other a generator that has run nothing.
Start(c) ==
    /\ pc[c] = "begin"
    /\ pc' = [pc EXCEPT ![c] = "loop"]
    /\ llm' = [llm EXCEPT ![c] = IF impl[c] = "ai_endpoint"
                                 THEN construct_llm(Accounts[req[c].user].api_key)
                                 ELSE @]
    /\ UNCHANGED <<impl, relay, out, frames, produced, ending, req, resp, chapters, svc, callVars, moreVars>>

\* What the next pull on the source of c may give.
SourceNext(c) ==
    IF impl[c] = "sse_util"
    THEN GeneratorNext(produced[c], ending[c].kind # "none")
    ELSE BookAiService_generate_outline_next(chapters, req[c], produced[c],
                                             ending[c].kind # "none")

\* The relay's turn of the loop on what it pulled.
RelayOn(i, outcome) ==
    IF i = "sse_util" THEN _event_stream(outcome) ELSE event_stream(outcome)

\* A faulty variant of CanPull: the relay reads ahead while a frame waits.
CanPull_ReadAhead(p, o) == p \in {"loop", "yield"}

\* The relay pulls at the head of its loop only: a yield suspends it until the
\* response has taken the frame.
CanPull(p, o) == p = "loop" /\ o = <<>>

\* The relay pulls the next item of its source and takes its turn on it.
Pull(c) ==
    /\ CanPull(pc[c], out[c])
    /\ \E outcome \in SourceNext(c) :
          LET r == RelayOn(impl[c], outcome)
              waiting == out[c] \o [i \in 1..Len(r.out) |-> [frame |-> r.out[i], to |-> r.to]]
          IN
          /\ produced' = [produced EXCEPT ![c] =
                            IF outcome.kind = "chunk" THEN Append(@, outcome.chunk) ELSE @]
          /\ ending' = [ending EXCEPT ![c] =
                            IF outcome.kind # "chunk" /\ @.kind = "none" THEN outcome ELSE @]
          /\ out' = [out EXCEPT ![c] = waiting]
          /\ pc' = [pc EXCEPT ![c] =
                            IF r.pc = "raised" THEN "raised"
                            ELSE IF waiting # <<>> THEN "yield" ELSE "loop"]
    /\ UNCHANGED <<impl, relay, frames, req, resp, llm, chapters, svc, callVars, moreVars>>

\* A faulty variant of Deliver: every relay writes to one shared response.
Deliver_Shared(fs, c, frame) ==
    LET shared == CHOOSE d \in Conns : TRUE IN
    [fs EXCEPT ![shared] = Append(@, frame)]

\* The frame a generator yields goes to the response that iterates it.
Deliver(fs, c, frame) == [fs EXCEPT ![c] = Append(@, frame)]

\* A faulty variant of AfterYield: the except sits inside the loop, which goes on.
AfterYield_Continue(to) == IF to = "DONE" THEN "final" ELSE "loop"

\* Where the generator resumes after a yield: the loop after a content frame,
\* the end of the function after the completion frame or the error frame.
AfterYield(to) == IF to = "STREAMING" THEN "loop" ELSE "final"

\* The response takes the frame the relay yielded and writes it.
Emit(c) ==
    /\ pc[c] = "yield"
    /\ out[c] # <<>>
    /\ frames' = Deliver(frames, c, Head(out[c]).frame)
    /\ relay' = [relay EXCEPT ![c] = Head(out[c]).to]
    /\ out' = [out EXCEPT ![c] = Tail(@)]
    /\ pc' = [pc EXCEPT ![c] =
                IF Tail(out[c]) # <<>> THEN "yield" ELSE AfterYield(Head(out[c]).to)]
    /\ UNCHANGED <<impl, produced, ending, req, resp, llm, chapters, svc, callVars, moreVars>>

\* Resumed after its last yield the generator returns; the response ends.
Return(c) ==
    /\ pc[c] = "final"
    /\ pc' = [pc EXCEPT ![c] = "returned"]
    /\ UNCHANGED <<impl, relay, out, frames, produced, ending, req, resp, llm, chapters, svc, callVars, moreVars>>

Next ==
    \E c \in Conns :
        \/ generate_outline(c)
        \/ create_sse_response(c)
        \/ Start(c)
        \/ Pull(c)
        \/ Emit(c)
        \/ Return(c)

Spec == Init /\ [][Next]_vars

\* ------------------------------------------------------- reading a stream

\* The three frame shapes, as a client tells them apart.
IsContent(f) == f.event = "" /\ Len(f.data) = 5 /\ f.data[2] = "content"
IsCompletion(f) ==
    \/ f.event = "complete" /\ Len(f.data) = 5 /\ f.data[2] = "status"
    \/ f.event = "" /\ f.data = <<"[DONE]">>
IsError(f) == f.event = "error" /\ Len(f.data) = 5 /\ f.data[2] = "error"
IsTerminal(f) == IsCompletion(f) \/ IsError(f)

\* The text a content frame or an error frame carries.
Carried(f) == f.data[4][2]

\* The non-empty fragments of a sequence, in order.
NonEmpty(fs) == SelectSeq(fs, LAMBDA f : f # "")

\* The texts of the content frames of a stream, in order.
ContentsOf(fs) ==
    LET cs == SelectSeq(fs, IsContent) IN [i \in 1..Len(cs) |-> Carried(cs[i])]

IsPrefix(s, t) == Len(s) <= Len(t) /\ \A i \in 1..Len(s) : s[i] = t[i]

\* The relay of c has yielded its last frame and the response has taken it.
Finished(c) == pc[c] \in {"final", "returned"}

\* ------------------------------------------------------------------ claims

\* C1: for a fragment source that exhausts without raising, the relay emits
\* exactly one content frame per non-empty fragment, in the order produced,
\* nothing for an empty fragment, and then exactly one completion frame, last.
C1_CleanStreamFrames ==
    \A c \in Conns :
        (Finished(c) /\ ending[c].kind = "end") =>
            /\ Len(frames[c]) = Len(NonEmpty(produced[c])) + 1
            /\ \A i \in 1..(Len(frames[c]) - 1) :
                  /\ IsContent(frames[c][i])
                  /\ Carried(frames[c][i]) = NonEmpty(produced[c])[i]
            /\ IsCompletion(frames[c][Len(frames[c])])

\* C1, its case: the fragments "f1", "", "f3" were relayed and the source ended.
C1_Witness ==
    \E c \in Conns :
        /\ pc[c] = "returned"
        /\ ending[c].kind = "end"
        /\ produced[c] = <<"f1", "", "f3">>
        /\ Len(frames[c]) = 3

\* C2: for a source that produces fragments and then raises, the relay emits
\* the content frames of the non-empty fragments in order, then exactly one
\* error frame carrying the error's message, then nothing, never a completion
\* frame, and ends ERRORED.
C2_FailedStreamFrames ==
    \A c \in Conns :
        (Finished(c) /\ ending[c].kind = "raise") =>
            /\ Len(frames[c]) = Len(NonEmpty(produced[c])) + 1
            /\ \A i \in 1..(Len(frames[c]) - 1) :
                  /\ IsContent(frames[c][i])
                  /\ Carried(frames[c][i]) = NonEmpty(produced[c])[i]
            /\ IsError(frames[c][Len(frames[c])])
            /\ Carried(frames[c][Len(frames[c])]) = ending[c].msg
            /\ \A i \in 1..Len(frames[c]) : ~IsCompletion(frames[c][i])
            /\ relay[c] = "ERRORED"
            /\ out[c] = <<>>

\* C2, its case: one fragment, then the source raised, and the relay is over.
C2_Witness ==
    \E c \in Conns :
        /\ pc[c] = "returned"
        /\ produced[c] = <<"f1">>
        /\ ending[c] = Raise("boom")
        /\ relay[c] = "ERRORED"

\* C3: DONE and ERRORED are terminal: a completion frame or an error frame is
\* the last frame of its stream, so no stream holds both nor two of either,
\* and a relay in DONE or ERRORED has nothing left to emit and pulls no more.
C3_TerminalStates ==
    \A c \in Conns :
        /\ \A i \in 1..Len(frames[c]) :
              IsTerminal(frames[c][i]) => i = Len(frames[c])
        /\ relay[c] \in {"DONE", "ERRORED"} =>
              /\ Finished(c)
              /\ out[c] = <<>>
              /\ IsTerminal(frames[c][Len(frames[c])])
        /\ relay[c] = "DONE" => IsCompletion(frames[c][Len(frames[c])])
        /\ relay[c] = "ERRORED" => IsError(frames[c][Len(frames[c])])

\* C3, its case: one stream is over in DONE and another in ERRORED, each
\* after content frames.
C3_Witness ==
    \E c, d \in Conns :
        /\ relay[c] = "DONE" /\ pc[c] = "returned" /\ Len(frames[c]) > 1
        /\ relay[d] = "ERRORED" /\ pc[d] = "returned" /\ Len(frames[d]) > 1

\* C4: a failure raised once the stream has started is caught in the relay and
\* becomes an error frame: no exception leaves the relay's generator, and a
\* stream that is over ended with a completion frame or an error frame.
C4_FailuresBecomeErrorFrames ==
    \A c \in Conns :
        /\ pc[c] # "raised"
        /\ (ending[c].kind = "raise" /\ pc[c] # "yield") =>
              /\ Finished(c)
              /\ IsError(frames[c][Len(frames[c])])
        /\ (ending[c].kind = "raise" /\ pc[c] = "yield") =>
              /\ Len(out[c]) = 1
              /\ IsError(out[c][1].frame)
        /\ pc[c] = "returned" =>
              /\ frames[c] # <<>>
              /\ IsTerminal(frames[c][Len(frames[c])])

\* C4, its case: the endpoint's own source failed on its first pull and the
\* client got the error frame; another source failed after two fragments.
C4_Witness ==
    \E c, d \in Conns :
        /\ impl[c] = "ai_endpoint" /\ pc[c] = "returned"
        /\ ending[c].kind = "raise" /\ IsError(frames[c][1])
        /\ impl[d] = "sse_util" /\ pc[d] = "returned"
        /\ ending[d].kind = "raise" /\ Len(produced[d]) = 2

\* The fragments pulled whose frame the response has not yet taken.
InFlight(c) == Len(NonEmpty(produced[c])) - Len(ContentsOf(frames[c]))

\* C5: relay and source run in lockstep: at most one fragment is pulled and
\* not yet emitted, the relay pulls only when none is, and at most one frame
\* waits for the response (no batch).
C5_Lockstep ==
    \A c \in Conns :
        /\ InFlight(c) \in {0, 1}
        /\ Len(out[c]) <= 1
        /\ pc[c] = "loop" => (InFlight(c) = 0 /\ out[c] = <<>>)
        /\ IsPrefix(ContentsOf(frames[c]), NonEmpty(produced[c]))

\* C5, its case: a second fragment is in flight, the first one is written.
C5_Witness ==
    \E c \in Conns :
        /\ pc[c] = "yield"
        /\ InFlight(c) = 1
        /\ Len(frames[c]) = 1
        /\ produced[c] = <<"f1", "", "f3">>

\* The stream a relay gives when it runs alone on a source that produced
\* `fragments` and ended as `ended` says.
AloneFrames(i, fragments, ended) ==
    LET enc == IF i = "sse_util" THEN "bytes" ELSE "str"
        ne == NonEmpty(fragments)
        contents == [k \in 1..Len(ne) |-> ContentFrame(ne[k], enc)]
        last == CASE ended.kind = "end" ->
                        <<IF i = "sse_util" THEN CompleteFrameB ELSE CompleteFrameA>>
                  [] ended.kind = "raise" -> <<ErrorFrame(ended.msg, enc)>>
                  [] OTHER -> <<>>
    IN contents \o last

\* C7: when requests run concurrently, under every interleaving each
\* connection receives the frames its request gives alone: what is written to
\* a connection is at every moment the start of that stream, all of it once
\* the relay is over, and nothing of another request.
C7_IndependentStreams ==
    \A c \in Conns :
        /\ IsPrefix(frames[c], AloneFrames(impl[c], produced[c], ending[c]))
        /\ Finished(c) => frames[c] = AloneFrames(impl[c], produced[c], ending[c])
        /\ pc[c] \in {"idle", "rejected", "begin"} => frames[c] = <<>>

\* C7, its case: two generate-outline requests for different chapters of one
\* book, one stream over, the other with its frame yielded and not yet written.
C7_Witness ==
    \E c, d \in Conns :
        /\ impl[c] = "ai_endpoint" /\ impl[d] = "ai_endpoint"
        /\ req[c].book_id = req[d].book_id
        /\ req[c].chapter_number # req[d].chapter_number
        /\ pc[c] = "returned" /\ Len(frames[c]) = 1
        /\ pc[d] = "yield" /\ frames[d] = <<>>

\* The endpoint has answered the request of c.
Answered(c) == req[c] # NoRequest

\* No streaming response was opened for c and nothing of a stream exists.
NoStream(c) ==
    /\ pc[c] = "rejected"
    /\ relay[c] = "NONE"
    /\ frames[c] = <<>> /\ out[c] = <<>>
    /\ produced[c] = <<>> /\ ending[c] = NoOutcome

\* The permission check answers, and answers yes.
MayView(user, book_id) == ~can_view_raises(user, book_id) /\ can_view(user, book_id)
\* The permission check answers, and answers no.
MayNotView(user, book_id) == ~can_view_raises(user, book_id) /\ ~can_view(user, book_id)

\* The caller has no model-provider credential: an anonymous caller, or an
\* account whose api_key still holds the default of the account model.
NoCredential(user) == user = Anonymous \/ Accounts[user].api_key = ApiKeyDefault

Rejected(c, status) == resp[c].status = status /\ NoStream(c)

\* C8: a generate_outline request whose book does not exist, whose caller may
\* not view the book, whose chapter does not exist or whose caller has no API
\* credential is answered 404, 403, 404 or 400 respectively, and no stream is
\* opened: the source is never invoked and no frame is produced.
C8_PreStreamRejections ==
    \A c \in Conns :
        Answered(c) =>
            LET u == req[c].user
                b == req[c].book_id
                n == req[c].chapter_number
            IN
            /\ b \notin DOMAIN Books => Rejected(c, 404)
            /\ (b \in DOMAIN Books /\ MayNotView(u, b)) => Rejected(c, 403)
            /\ (b \in DOMAIN Books /\ MayView(u, b) /\ <<b, n>> \notin chapters) =>
                  Rejected(c, 404)
            /\ (b \in DOMAIN Books /\ MayView(u, b) /\ <<b, n>> \in chapters
                    /\ NoCredential(u)) =>
                  Rejected(c, 400)

\* C9: a generate_outline request that passes the checks before the
\* credential check, from a caller without a credential (anonymous, or an
\* account whose api_key was never set), is rejected with 400 and no stream
\* begins.
C9_NoCredentialRejected ==
    \A c \in Conns :
        (/\ Answered(c)
         /\ req[c].book_id \in DOMAIN Books
         /\ MayView(req[c].user, req[c].book_id)
         /\ <<req[c].book_id, req[c].chapter_number>> \in chapters
         /\ NoCredential(req[c].user)) =>
            /\ resp[c].status = 400
            /\ relay[c] = "NONE"
            /\ frames[c] = <<>>

\* ------------------------------------------------- the service, called directly

\* The chapter tables, target chapters and context sizes a direct call of
\* BookAiService is drawn from. context_size is any integer of the request
\* schema: negative, zero, and larger than the chapter number.
ServiceBooks == {1, 2}
\* The tables hold any chapters of book 1, chapter 0 among them (the table
\* takes any integer as a chapter number), and any of two chapters of book 2.
ServiceRows == ({1} \X (0..MaxChapter)) \cup ({2} \X (1..2))
ServiceTables == SUBSET ServiceRows
ServiceTargets == 0..MaxChapter
ServiceContextSizes == (-2)..MaxContext

\* What the model streams to a chain the service calls.
ServiceStreams ==
    {<<TextEnd>>,
     <<TextChunk(<<"a">>), TextEnd>>,
     <<TextChunk(<<"a">>), TextRaise("boom")>>}

InitService ==
    /\ pc = [c \in Conns |-> "idle"]
    /\ impl = [c \in Conns |-> "none"]
    /\ relay = [c \in Conns |-> "NONE"]
    /\ out = [c \in Conns |-> <<>>]
    /\ frames = [c \in Conns |-> <<>>]
    /\ produced = [c \in Conns |-> <<>>]
    /\ ending = [c \in Conns |-> NoOutcome]
    /\ req = [c \in Conns |-> NoRequest]
    /\ resp = [c \in Conns |-> NoResponse]
    /\ llm = [c \in Conns |-> NoLlm]
    /\ chapters \in ServiceTables
    /\ svc = NoCall
    /\ chain = NoChain
    /\ extract = NoExtract
    /\ op = NoOp
    /\ race = NoRace
    /\ account = NoAccount
    /\ covers = NoCovers
    /\ pair = NoPair
    /\ site = NoSite

\* A call of BookAiService.generate_outline, iterated until it is over: past
\* its attribute reads it builds the history, makes the chain's async
\* generator, whose body does not run, and fails on iterating it.
CallGenerateOutline ==
    /\ svc.pc = "idle"
    /\ \E ai_fields \in BOOLEAN, current_number \in ServiceTargets,
          context_size \in ServiceContextSizes :
          /\ svc' = [pc |-> "returned", mode |-> "outline", ai_fields |-> ai_fields,
                     book |-> 1, current_number |-> current_number,
                     context_size |-> context_size,
                     result |-> BookAiService_generate_outline(
                                    chapters, ai_fields, 1, current_number, context_size)]
          /\ chain' = IF ai_fields THEN ChainCall("created", "outline", <<>>) ELSE chain
    /\ UNCHANGED <<relayVars, chapters, extract, op, moreVars>>

\* The outline chain iterated with `async for`, on the arguments
\* BookAiService.generate_outline builds for it: it assembles its prompt and
\* starts the model stream.
CallOutlineChain ==
    /\ svc.pc = "idle"
    /\ \E current_number \in ServiceTargets, context_size \in ServiceContextSizes :
          LET r == BookAiService_generate_outline(chapters, TRUE, 1, current_number,
                                                  context_size)
          IN
          /\ svc' = [pc |-> "returned", mode |-> "outline_chain", ai_fields |-> TRUE,
                     book |-> 1, current_number |-> current_number,
                     context_size |-> context_size,
                     result |-> [r EXCEPT !.raised = ""]]
          /\ chain' = ChainCall("stream", "outline",
                          generate_outline_chain(BookSettings(1), current_number,
                                                 r.previous_outlines))
    /\ UNCHANGED <<relayVars, chapters, extract, op, moreVars>>

\* A call of BookAiService.generate_chapter.
CallGenerateChapter ==
    /\ svc.pc = "idle"
    /\ \E ai_fields \in BOOLEAN, current_number \in ServiceTargets,
          context_size \in ServiceContextSizes, stream \in ServiceStreams :
          LET r == BookAiService_generate_chapter(
                       chapters, ai_fields, 1, current_number, context_size)
              call == BookAiService_generate_chapter_chain(1, current_number, r, stream)
          IN
          /\ svc' = [pc |-> "returned", mode |-> "chapter", ai_fields |-> ai_fields,
                     book |-> 1, current_number |-> current_number,
                     context_size |-> context_size,
                     result |-> [r EXCEPT !.raised = IF @ # "" THEN @ ELSE call.raised]]
          /\ chain' = call
    /\ UNCHANGED <<relayVars, chapters, extract, op, moreVars>>

NextService == CallGenerateOutline \/ CallOutlineChain \/ CallGenerateChapter

SpecService == InitService /\ [][NextService]_vars

\* C10: when the target chapter number is 1, the context window built by
\* BookAiService.generate_outline and generate_chapter is empty for every
\* context_size, and the chapter-range lookup is not performed.
C10_FirstChapterHasNoContext ==
    (svc.pc = "returned" /\ svc.current_number = 1) =>
        /\ svc.result.previous_outlines = <<>>
        /\ svc.result.previous_chapters = <<>>
        /\ svc.result.range_calls = <<>>

\* C10, its case: generate_chapter ran past its attribute reads for chapter 1
\* with a positive context_size on a table that holds chapters of the book.
C10_Witness ==
    /\ svc.pc = "returned" /\ svc.mode = "chapter"
    /\ svc.ai_fields /\ svc.result.raised = ""
    /\ svc.current_number = 1 /\ svc.context_size = 3
    /\ {<<1, 1>>, <<1, 2>>} \subseteq chapters
    /\ svc.result.previous_chapters = <<>>

\* ------------------------------------------------ reading a context window

\* max(1, n), as the window's start is defined.
Clamp(n) == IF n > 1 THEN n ELSE 1

\* The chapter numbers the table holds for a book within [lo, hi).
StoredIn(book, lo, hi) ==
    {row[2] : row \in {r \in chapters : r[1] = book /\ lo <= r[2] /\ r[2] < hi}}

\* The i-th smallest number of a set.
Nth(S, i) == CHOOSE x \in S : Cardinality({y \in S : y < x}) = i - 1

\* The service was called and got past its attribute reads.
WindowCall == svc.pc = "returned" /\ svc.ai_fields

\* The start of the window of the call, and the stored chapters of its range.
WindowStart == Clamp(svc.current_number - svc.context_size)
WindowStored == StoredIn(svc.book, WindowStart, svc.current_number)

\* The outlines handed to the chain are those of the stored chapters of the
\* book within the window's range, each once, in ascending chapter order.
WindowIsStoredRange ==
    LET prev == svc.result.previous_outlines IN
    /\ Len(prev) = Cardinality(WindowStored)
    /\ \A i \in 1..Len(prev) : prev[i] = OutlineOf(<<svc.book, Nth(WindowStored, i)>>)

\* The chapter numbers of the window are range(start, N).
WindowIsWholeRange ==
    LET prev == svc.result.previous_outlines IN
    /\ Len(prev) = svc.current_number - WindowStart
    /\ \A i \in 1..Len(prev) : prev[i] = OutlineOf(<<svc.book, WindowStart + i - 1>>)

\* C11 as stated: for context_size >= 0 and target chapter N > 1 the chapters
\* used as context are exactly the stored chapters of the book in
\* [max(1, N - context_size), N), ascending, none of another book, and their
\* numbers equal range(max(1, N - context_size), N).
C11_WindowEqualsRange ==
    (WindowCall /\ svc.context_size >= 0 /\ svc.current_number > 1) =>
        /\ WindowIsStoredRange
        /\ WindowIsWholeRange

\* C11, amended: for context_size >= 0 and target chapter N > 1 the chapters
\* used as context are exactly the stored chapters of the book in
\* [max(1, N - context_size), N), ascending, none of another book; their
\* numbers are the numbers of that range the book has a chapter for, and
\* equal the whole range when every chapter of the range is stored.
C11_WindowIsStoredChapters ==
    (WindowCall /\ svc.context_size >= 0 /\ svc.current_number > 1) =>
        /\ WindowIsStoredRange
        /\ (\A n \in WindowStart..(svc.current_number - 1) :
                <<svc.book, n>> \in chapters) => WindowIsWholeRange

\* C11, its case: the window of chapter 4 with context_size 3 in a book that
\* has chapters 1 and 3 but no chapter 2, while another book has a chapter 2.
C11_Witness ==
    /\ WindowCall /\ svc.mode = "outline"
    /\ svc.current_number = 4 /\ svc.context_size = 3
    /\ {<<1, 1>>, <<1, 3>>, <<2, 2>>} \subseteq chapters /\ <<1, 2>> \notin chapters
    /\ svc.result.previous_outlines = <<OutlineOf(<<1, 1>>), OutlineOf(<<1, 3>>)>>

\* C12: for every integer context_size (zero, negative, larger than N) and
\* every target chapter N, every chapter of the context window has
\* 1 <= chapter_number < N: never the target or a later chapter, and the
\* range looked up never starts below chapter 1.
C12_WindowBeforeTarget ==
    WindowCall =>
        /\ \A i \in 1..Len(svc.result.previous_outlines) :
              \E n \in 1..(svc.current_number - 1) :
                  svc.result.previous_outlines[i] = OutlineOf(<<svc.book, n>>)
        /\ \A i \in 1..Len(svc.result.range_calls) :
              /\ svc.result.range_calls[i][2] >= 1
              /\ svc.result.range_calls[i][3] = svc.current_number
        /\ svc.mode = "chapter" =>
              Len(svc.result.previous_chapters) = Len(svc.result.previous_outlines)

\* C12, its case: the book holds a chapter 0 and a chapter 1, the target is
\* chapter 2 and context_size reaches back beyond chapter 0: the window is
\* chapter 1 alone.
C12_Witness ==
    /\ WindowCall /\ svc.mode = "chapter"
    /\ svc.current_number = 2 /\ svc.context_size = 4
    /\ {<<1, 0>>, <<1, 1>>, <<1, 2>>, <<1, 3>>} \subseteq chapters
    /\ svc.result.previous_outlines = <<OutlineOf(<<1, 1>>)>>
    /\ svc.result.range_calls = <<<<1, 1, 2>>>>

\* The outline chain has assembled its prompt.
OutlinePrompt == chain.mode = "outline" /\ chain.pc = "stream"

\* C13: in outline mode the messages are: a system message, the settings as a
\* user message, an acknowledgement of the assistant, then per chapter of the
\* context window, in ascending chapter order, a user message and an
\* assistant message carrying that chapter's outline, then a user message
\* requesting the outline of the target chapter: 4 + 2k messages for k
\* chapters; with chapters 1-5, target 5 and context_size 2 the history turns
\* are chapter 3's, then chapter 4's.
C13_OutlinePromptShape ==
    OutlinePrompt =>
        LET m == chain.messages
            k == Cardinality(WindowStored)
            N == svc.current_number
        IN
        /\ Len(m) = 4 + 2 * k
        /\ m[1].role = "system"
        /\ m[2].role = "user" /\ m[2].says = "settings" /\ m[2].text = BookSettings(svc.book)
        /\ m[3].role = "assistant" /\ m[3].says = "acknowledgement"
        /\ \A i \in 1..k :
              /\ m[2 + 2 * i].role = "user"
              /\ m[2 + 2 * i].says = "outline_request"
              /\ m[3 + 2 * i].role = "assistant"
              /\ m[3 + 2 * i].text = OutlineOf(<<svc.book, Nth(WindowStored, i)>>)
        /\ m[4 + 2 * k].role = "user"
        /\ m[4 + 2 * k].says = "outline_request"
        /\ m[4 + 2 * k].number = N
        /\ ({1} \X (1..5) \subseteq chapters /\ N = 5 /\ svc.context_size = 2) =>
              /\ Len(m) = 8
              /\ m[4].number = 3 /\ m[5].text = OutlineOf(<<1, 3>>)
              /\ m[6].number = 4 /\ m[7].text = OutlineOf(<<1, 4>>)
              /\ m[8].number = 5

\* C13, its case: a book with chapters 1 to 5, target 5, context_size 2.
C13_Witness ==
    /\ OutlinePrompt
    /\ {1} \X (1..5) \subseteq chapters
    /\ svc.current_number = 5 /\ svc.context_size = 2
    /\ Len(chain.messages) = 8

\* The chapter chain was called by the service and is over.
ChapterPrompt ==
    chain.mode = "chapter" /\ chain.pc \in {"returned", "raised"} /\ WindowCall

\* C14: in chapter mode the i-th history pair is a user message carrying the
\* outline of the i-th chapter of the context window and an assistant message
\* carrying the extracted text of that same chapter; previous_outlines and
\* previous_chapters have the same length; the final user message carries the
\* target chapter's own outline, which is no context chapter's.
C14_ChapterPromptPairs ==
    ChapterPrompt =>
        LET m == chain.messages
            k == Cardinality(WindowStored)
            N == svc.current_number
            row(i) == <<svc.book, Nth(WindowStored, i)>>
        IN
        /\ Len(svc.result.previous_outlines) = Len(svc.result.previous_chapters)
        /\ Len(m) = 4 + 2 * k
        /\ \A i \in 1..k :
              /\ m[2 + 2 * i].role = "user"
              /\ m[2 + 2 * i].says = "chapter_request"
              /\ m[2 + 2 * i].text = OutlineOf(row(i))
              /\ m[3 + 2 * i].role = "assistant"
              /\ m[3 + 2 * i].text = get_chapter_content(ContentOf(row(i)))
              /\ m[4 + 2 * k].text # OutlineOf(row(i))
        /\ m[4 + 2 * k].role = "user"
        /\ m[4 + 2 * k].says = "chapter_request"
        /\ m[4 + 2 * k].text = OutlineOf(<<svc.book, N>>)

\* C14, its case: target 4 with chapters 2 and 3 as context, whose texts are
\* "AB" and "DC".
C14_Witness ==
    /\ ChapterPrompt
    /\ svc.current_number = 4 /\ svc.context_size = 2
    /\ {<<1, 2>>, <<1, 3>>, <<1, 4>>} \subseteq chapters
    /\ chain.messages[5].text = "AB" /\ chain.messages[7].text = "DC"
    /\ chain.messages[8].text = OutlineOf(<<1, 4>>)

\* -------------------------------------- get_chapter_content, called directly

\* The entries a content list is drawn from: text blocks with an index (one
\* of them negative), text blocks without an index, a text block without
\* content, blocks of other types, a dict without type, an entry that is no
\* dict.
ContentItems ==
    {Block("text", i, c) : i \in 0..2, c \in {"A", "B"}}
    \cup {Block("text", -1, "N")}
    \cup {BlockNoIndex("text", c) : c \in {"C", "D"}}
    \cup {[isdict |-> TRUE, map |-> [type |-> "text", index |-> 1]],
          Block("image", 2, "X"),
          BlockNoIndex("video", "Y"),
          [isdict |-> TRUE, map |-> [index |-> 0, content |-> "Z"]],
          NotADict}

\* The values of chapter.content: None, or a list of up to MaxBlocks entries.
Contents ==
    {NoneContent}
    \cup {List(items) : items \in UNION {[1..n -> ContentItems] : n \in 0..MaxBlocks}}

InitContent ==
    /\ pc = [c \in Conns |-> "idle"]
    /\ impl = [c \in Conns |-> "none"]
    /\ relay = [c \in Conns |-> "NONE"]
    /\ out = [c \in Conns |-> <<>>]
    /\ frames = [c \in Conns |-> <<>>]
    /\ produced = [c \in Conns |-> <<>>]
    /\ ending = [c \in Conns |-> NoOutcome]
    /\ req = [c \in Conns |-> NoRequest]
    /\ resp = [c \in Conns |-> NoResponse]
    /\ llm = [c \in Conns |-> NoLlm]
    /\ chapters = Chapters
    /\ svc = NoCall
    /\ chain = NoChain
    /\ op = NoOp
    /\ race = NoRace
    /\ account = NoAccount
    /\ covers = NoCovers
    /\ pair = NoPair
    /\ site = NoSite
    /\ \E content \in Contents :
          extract = [pc |-> "idle", content |-> content, returned |-> ""]

\* A call of ChapterService.get_chapter_content on a chapter of that content.
CallGetChapterContent ==
    /\ extract.pc = "idle"
    /\ extract' = [extract EXCEPT !.pc = "returned",
                                  !.returned = get_chapter_content(extract.content)]
    /\ UNCHANGED <<relayVars, chapters, svc, chain, op, moreVars>>

NextContent == CallGetChapterContent

SpecContent == InitContent /\ [][NextContent]_vars

\* --------------------------------------------------- reading a content list

\* The entry is a key-value map whose type is "text".
IsTextBlock(item) ==
    item.isdict /\ "type" \in DOMAIN item.map /\ item.map.type = "text"

\* The positions of the text blocks of a list.
TextPositions(items) == {p \in 1..Len(items) : IsTextBlock(items[p])}

\* The content value of a block, nothing when it has none.
TextOf(item) == IF "content" \in DOMAIN item.map THEN item.map.content ELSE ""

HasIndex(item) == "index" \in DOMAIN item.map

\* The text blocks of the list all carry an index, no two the same.
DistinctIndexes(items) ==
    /\ \A p \in TextPositions(items) : HasIndex(items[p])
    /\ \A p, q \in TextPositions(items) :
          p # q => items[p].map.index # items[q].map.index

\* The (index, content) pairs of the text blocks, whatever their positions.
IndexedTexts(items) ==
    {<<items[p].map.index, TextOf(items[p])>> : p \in TextPositions(items)}

\* The contents of indexed texts in ascending index order, concatenated.
RECURSIVE JoinAscending(_)
JoinAscending(pairs) ==
    IF pairs = {} THEN ""
    ELSE LET least == CHOOSE x \in pairs : \A y \in pairs : x[1] <= y[1]
         IN least[2] \o JoinAscending(pairs \ {least})

\* The call returned, on a content that is a list.
Extracted == extract.pc = "returned" /\ ~extract.content.isnone

\* C15: get_chapter_content returns the concatenation, in ascending index
\* order and whatever the storage order, of the content values of exactly the
\* blocks whose type is "text"; blocks of another type and entries that are
\* no key-value maps contribute nothing; the blocks text/1/"B", text/0/"A",
\* image/2/"X" give "AB".
C15_TextByIndex ==
    /\ (Extracted /\ DistinctIndexes(extract.content.items)) =>
          extract.returned = JoinAscending(IndexedTexts(extract.content.items))
    /\ (Extracted /\ extract.content.items =
            <<Block("text", 1, "B"), Block("text", 0, "A"), Block("image", 2, "X")>>) =>
          extract.returned = "AB"

\* C15, its case: the three blocks of the example, extracted.
C15_Witness ==
    /\ Extracted
    /\ extract.content.items =
          <<Block("text", 1, "B"), Block("text", 0, "A"), Block("image", 2, "X")>>
    /\ extract.returned = "AB"

\* C16: get_chapter_content returns the empty string when the content is an
\* empty list or absent, and when the content holds no text block.
C16_EmptyContent ==
    (/\ extract.pc = "returned"
     /\ \/ extract.content.isnone
        \/ extract.content.items = <<>>
        \/ TextPositions(extract.content.items) = {}) =>
        extract.returned = ""

\* C16, its case: a content of an image block, a dict without type and an
\* entry that is no dict.
C16_Witness ==
    /\ extract.pc = "returned"
    /\ extract.content = List(<<Block("image", 2, "X"),
                                [isdict |-> TRUE, map |-> [index |-> 0, content |-> "Z"]],
                                NotADict>>)
    /\ extract.returned = ""

\* The index a block is ordered by: 0 when it has none.
OrderKey(item) == IF HasIndex(item) THEN item.map.index ELSE 0

\* The text block that comes i-th: those of a smaller index come before it,
\* and of those of its index the ones stored before it.
StableAt(items, i) ==
    CHOOSE p \in TextPositions(items) :
        Cardinality({q \in TextPositions(items) :
            \/ OrderKey(items[q]) < OrderKey(items[p])
            \/ OrderKey(items[q]) = OrderKey(items[p]) /\ q < p}) = i - 1

\* C17: a text block without index is ordered as if its index were 0, and
\* text blocks of equal index (blocks without index among them) come out in
\* their storage order.
C17_StableTies ==
    Extracted =>
        LET items == extract.content.items
            k == Cardinality(TextPositions(items))
        IN extract.returned = Join([i \in 1..k |-> TextOf(items[StableAt(items, i)])])

\* C17, its case: two text blocks without index stored around one of index
\* 0: the three tie and come out as stored.
C17_Witness ==
    /\ Extracted
    /\ extract.content.items =
          <<BlockNoIndex("text", "C"), Block("text", 0, "A"), BlockNoIndex("text", "D")>>
    /\ extract.returned = "CAD"

\* ------------------------------------- the two generations, side by side

\* One streaming response over sse_util's relay and one buffered call of the
\* chapter chain, each on a model stream of its own.
InitGeneration == Init

\* A direct call of generate_chapter of ai/chains: it assembles its prompt and
\* enters its loop over the model stream.
CallChapterChain ==
    /\ chain.pc = "idle"
    /\ chain' = ChainCall("stream", "chapter",
                    generate_chapter_chain(BookSettings(1), 2, <<OutlineOf(<<1, 1>>)>>,
                        <<get_chapter_content(ContentOf(<<1, 1>>))>>, OutlineOf(<<1, 2>>)))
    /\ UNCHANGED <<relayVars, chapters, svc, extract, op, moreVars>>

\* One turn of the chain's loop: it pulls on the model stream.
ChainPull ==
    /\ chain.pc = "stream"
    /\ \E outcome \in ModelStreamNext(chain.streamed) :
          chain' = [generate_chapter_loop(chain, outcome) EXCEPT
                        !.ending = IF outcome.kind = "chunk" THEN @ ELSE outcome]
    /\ UNCHANGED <<relayVars, chapters, svc, extract, op, moreVars>>

NextGeneration ==
    \/ create_sse_response("c1")
    \/ Start("c1")
    \/ Pull("c1")
    \/ Emit("c1")
    \/ Return("c1")
    \/ CallChapterChain
    \/ ChainPull

SpecGeneration == InitGeneration /\ [][NextGeneration]_vars

\* All chunks of a stream, one after the other.
RECURSIVE Flat(_)
Flat(chunks) == IF chunks = <<>> THEN <<>> ELSE Head(chunks) \o Flat(Tail(chunks))

\* The text between its first and its last character that is no whitespace.
Trimmed(text) ==
    LET solid == {i \in 1..Len(text) : text[i] \notin Whitespace} IN
    IF solid = {} THEN <<>>
    ELSE SubSeq(text, CHOOSE i \in solid : \A j \in solid : i <= j,
                      CHOOSE i \in solid : \A j \in solid : i >= j)

\* C18: the buffered generate_chapter returns only after the model stream is
\* exhausted, and returns exactly the chunks streamed, concatenated in the
\* order produced, without leading and trailing whitespace and with the
\* whitespace inside kept.
C18_BufferedResult ==
    (chain.mode = "chapter" /\ chain.pc = "returned") =>
        /\ chain.ending.kind = "end"
        /\ chain.returned = Trimmed(Flat(chain.streamed))

\* C18, its case: whitespace, then a text with whitespace around and inside,
\* then whitespace again, and the stream ended.
C18_Witness ==
    /\ chain.pc = "returned"
    /\ chain.streamed = <<<<" ">>, <<"\n", "b", " ", "c", "\t">>, <<"a">>>>
    /\ chain.returned = <<"b", " ", "c", "\t", "a">>

\* C19: a failed generation is told apart from one that produced no text: a
\* streaming source that yields nothing and finishes gives exactly one
\* completion frame and no error frame, a source that fails gives an error
\* frame and no completion frame, and the buffered generate_chapter raises on
\* a failure and returns no empty or partial string.
C19_FailureIsNotEmptiness ==
    /\ \A c \in Conns :
          /\ (Finished(c) /\ ending[c].kind = "end" /\ NonEmpty(produced[c]) = <<>>) =>
                /\ Len(frames[c]) = 1
                /\ IsCompletion(frames[c][1]) /\ ~IsError(frames[c][1])
          /\ (Finished(c) /\ ending[c].kind = "raise") =>
                /\ \E i \in 1..Len(frames[c]) : IsError(frames[c][i])
                /\ \A i \in 1..Len(frames[c]) : ~IsCompletion(frames[c][i])
    /\ chain.ending.kind = "raise" =>
          /\ chain.pc = "raised"
          /\ chain.raised = chain.ending.msg
          /\ chain.returned = <<>>
    /\ chain.pc = "returned" => chain.ending.kind = "end"

\* C19, its case: a stream of one empty fragment ended cleanly and gave the
\* completion frame alone, and a buffered generation failed after a chunk.
C19_Witness ==
    /\ pc["c1"] = "returned" /\ ending["c1"].kind = "end" /\ produced["c1"] = <<"">>
    /\ frames["c1"] = <<CompleteFrameB>>
    /\ chain.pc = "raised" /\ chain.streamed = <<<<"a">>>> /\ chain.raised = "boom"

\* ------------------------------------------------------- the chapter table

\* The book whose chapters are created, updated and deleted, and the
\* chapter_number of the request data: the schemas take any int.
ChapterBook == 1
ChapterNumbersIn == (-1)..MaxChapter

\* ChapterService.create_chapter(book, data): refused when the book has a
\* chapter of that number, else the row is inserted. Chapter.objects.create
\* saves without running the validators of the field.
create_chapter(book, data) ==
    /\ IF <<book, data.chapter_number>> \in chapters
       THEN /\ op' = [name |-> "create_chapter", book |-> book,
                      chapter_number |-> data.chapter_number, data |-> data,
                      raised |-> "400 chapter_number"]
            /\ UNCHANGED chapters
       ELSE /\ chapters' = chapters \cup {<<book, data.chapter_number>>}
            /\ op' = [name |-> "create_chapter", book |-> book,
                      chapter_number |-> data.chapter_number, data |-> data,
                      raised |-> ""]
    /\ UNCHANGED <<relayVars, svc, chain, extract, moreVars>>

\* ChapterService.update_chapter(chapter, data): a new number is refused when
\* another chapter of the book has it, else chapter.save() stores it, again
\* without running the validators; without a number the row keeps its own.
update_chapter(row, data) ==
    /\ row \in chapters
    /\ IF data.given /\ <<row[1], data.chapter_number>> \in chapters \ {row}
       THEN /\ op' = [name |-> "update_chapter", book |-> row[1],
                      chapter_number |-> row[2], data |-> data,
                      raised |-> "400 chapter_number"]
            /\ UNCHANGED chapters
       ELSE /\ chapters' = IF data.given
                           THEN (chapters \ {row}) \cup {<<row[1], data.chapter_number>>}
                           ELSE chapters
            /\ op' = [name |-> "update_chapter", book |-> row[1],
                      chapter_number |-> row[2], data |-> data, raised |-> ""]
    /\ UNCHANGED <<relayVars, svc, chain, extract, moreVars>>

\* ChapterService.delete_chapter(chapter)
delete_chapter(row) ==
    /\ row \in chapters
    /\ chapters' = chapters \ {row}
    /\ op' = [name |-> "delete_chapter", book |-> row[1], chapter_number |-> row[2],
              data |-> NoNumber, raised |-> ""]
    /\ UNCHANGED <<relayVars, svc, chain, extract, moreVars>>

InitChapters == Init

NextChapters ==
    \/ \E n \in ChapterNumbersIn : create_chapter(ChapterBook, Number(n))
    \/ \E row \in chapters, data \in {Number(n) : n \in ChapterNumbersIn} \cup {NoNumber} :
          row[1] = ChapterBook /\ update_chapter(row, data)
    \/ \E row \in chapters : row[1] = ChapterBook /\ delete_chapter(row)

SpecChapters == InitChapters /\ [][NextChapters]_vars

\* C20: after any sequence of create_chapter and update_chapter calls with
\* arbitrary integer chapter numbers every stored chapter has
\* chapter_number >= 1: a create or an update that supplies a number below 1
\* is rejected and stores nothing.
C20_ChapterNumbersPositive ==
    /\ \A row \in chapters : row[2] >= 1
    /\ (op.name \in {"create_chapter", "update_chapter"}
            /\ op.data.given /\ op.data.chapter_number < 1) => op.raised # ""

\* ---------------------------------------------- concurrent chapter writes

\* The unique_together of Chapter.Meta, as the database enforces it on a
\* written row: no other row of the book has its chapter_number.
unique_together(rows, row) ==
    \A r \in rows :
        r.id # row.id => ~(r.book = row.book /\ r.chapter_number = row.chapter_number)

\* The row of a primary key, written or inserted.
Written(rows, row) == {r \in rows : r.id # row.id} \cup {row}

\* A transaction that has returned or raised: its name and what it raised.
Done(name, raised) ==
    [pc |-> "done", name |-> name, chapter |-> NoChapter, data |-> NoNumber,
     raised |-> raised]

\* ChapterService.create_chapter(book, data), up to its check: refused when
\* the filter finds a chapter of that number in the book.
tx_create_chapter(p, book, data) ==
    /\ race.proc[p].pc \in {"idle", "done"}
    /\ race.next_id <= MaxChapterId
    /\ LET found == \E r \in race.rows :
                        r.book = book /\ r.chapter_number = data.chapter_number
       IN race' = [race EXCEPT !.proc[p] =
                      IF found THEN Done("create_chapter", "400 chapter_number")
                      ELSE [pc |-> "insert", name |-> "create_chapter",
                            chapter |-> ChapterRow(0, book, data.chapter_number),
                            data |-> data, raised |-> ""]]
    /\ UNCHANGED <<oldVars, account, covers, pair, site>>

\* Chapter.objects.create(...): the INSERT, which the database refuses with an
\* IntegrityError when the book has got a chapter of that number meanwhile.
tx_create_chapter_insert(p) ==
    /\ race.proc[p].pc = "insert"
    /\ LET row == [race.proc[p].chapter EXCEPT !.id = race.next_id] IN
       IF unique_together(race.rows, row)
       THEN race' = [race EXCEPT !.rows = @ \cup {row},
                                 !.next_id = @ + 1,
                                 !.proc[p] = Done("create_chapter", "")]
       ELSE race' = [race EXCEPT !.proc[p] = Done("create_chapter", "IntegrityError")]
    /\ UNCHANGED <<oldVars, account, covers, pair, site>>

\* ChapterService.update_chapter(chapter, data), up to chapter.save(): a new
\* number is refused when the filter finds it on another chapter of the book,
\* else it is set on the chapter object.
tx_update_chapter(p, chapter, data) ==
    /\ race.proc[p].pc \in {"idle", "done"}
    /\ chapter \in race.rows
    /\ LET found == /\ data.given
                    /\ \E r \in race.rows :
                          /\ r.book = chapter.book
                          /\ r.chapter_number = data.chapter_number
                          /\ r.id # chapter.id
       IN race' = [race EXCEPT !.proc[p] =
                      IF found THEN Done("update_chapter", "400 chapter_number")
                      ELSE [pc |-> "save", name |-> "update_chapter",
                            chapter |-> IF data.given
                                        THEN [chapter EXCEPT
                                                 !.chapter_number = data.chapter_number]
                                        ELSE chapter,
                            data |-> data, raised |-> ""]]
    /\ UNCHANGED <<oldVars, account, covers, pair, site>>

\* chapter.save(): the UPDATE of the row of its id with the fields of the
\* object, or an INSERT when the row is gone; the database refuses either
\* with an IntegrityError when another chapter of the book has the number.
tx_update_chapter_save(p) ==
    /\ race.proc[p].pc = "save"
    /\ LET row == race.proc[p].chapter IN
       IF unique_together(race.rows, row)
       THEN race' = [race EXCEPT !.rows = Written(@, row),
                                 !.proc[p] = Done("update_chapter", "")]
       ELSE race' = [race EXCEPT !.proc[p] = Done("update_chapter", "IntegrityError")]
    /\ UNCHANGED <<oldVars, account, covers, pair, site>>

\* ChapterService.delete_chapter(chapter): chapter.delete()
tx_delete_chapter(p, chapter) ==
    /\ race.proc[p].pc \in {"idle", "done"}
    /\ chapter \in race.rows
    /\ race' = [race EXCEPT !.rows = {r \in @ : r.id # chapter.id},
                            !.proc[p] = Done("delete_chapter", "")]
    /\ UNCHANGED <<oldVars, account, covers, pair, site>>

InitChapterRace == Init

NextChapterRace ==
    \E p \in Procs :
        \/ \E n \in RaceNumbers : tx_create_chapter(p, ChapterBook, Number(n))
        \/ tx_create_chapter_insert(p)
        \/ \E chapter \in race.rows, data \in {Number(n) : n \in RaceNumbers} \cup {NoNumber} :
              chapter.book = ChapterBook /\ tx_update_chapter(p, chapter, data)
        \/ tx_update_chapter_save(p)
        \/ \E chapter \in race.rows : chapter.book = ChapterBook /\ tx_delete_chapter(p, chapter)

SpecChapterRace == InitChapterRace /\ [][NextChapterRace]_vars

\* No two stored chapters of a book have one chapter_number.
NumbersUnique ==
    \A r1, r2 \in race.rows :
        (r1.book = r2.book /\ r1.chapter_number = r2.chapter_number) => r1.id = r2.id

\* C21: under any interleaving of create_chapter, update_chapter and
\* delete_chapter no two chapters of a book share a chapter_number, and every
\* create or renumbering that is refused is refused with the 400 error on
\* chapter_number.
C21_UniqueAndRejectedWith400 ==
    /\ NumbersUnique
    /\ \A p \in Procs : race.proc[p].raised \in {"", "400 chapter_number"}

\* ------------------------------------------------- who may view a book

\* The users the documentation of can_view lets view a book: everyone once
\* the book is no draft, and for a draft the active users who are
\* administrators or the book's author, co-author or editor.
ViewerByRole(user, book_id) ==
    \/ Books[book_id].status # "draft"
    \/ /\ user # Anonymous
       /\ Accounts[user].is_active
       /\ \/ Accounts[user].is_staff \/ Accounts[user].is_superuser
          \/ \E r \in Relations :
                r[1] = book_id /\ r[2] = user /\ r[3] \in {"author", "co_author", "editor"}

\* C22: can_view is true for every user when the book is no draft, and for a
\* draft true exactly for the active users who are administrators, authors,
\* co-authors or editors of the book; seen at the generate_outline endpoint,
\* which answers 403 on permission exactly when can_view is false.
C22_CanViewByRole ==
    \A c \in Conns :
        (Answered(c) /\ req[c].book_id \in DOMAIN Books) =>
            /\ resp[c] # Uncaught("TypeError")
            /\ can_view(req[c].user, req[c].book_id) = ViewerByRole(req[c].user, req[c].book_id)
            /\ (resp[c] = Error(403, "permission")) <=> ~ViewerByRole(req[c].user, req[c].book_id)

\* ------------------------------------------------------ the account endpoints

\* The e-mail addresses, usernames and passwords of the requests, the uid of
\* a confirmation link (0: one that decodes to no primary key) and its token.
Names == {"ann", "carol", "erin"}
Passwords == {"pw0", "pw1"}
NewPasswords == {"pw1"}
Uids == 0..(Cardinality(UserRows) + 1)
ByEmail(email) == {u \in account.users : u.email = email}
ByPk(pk) == {u \in account.users : u.pk = pk}
One(set) == CHOOSE x \in set : TRUE
Registered(email) == ByEmail(email) # {}
Active(email) == \E u \in ByEmail(email) : u.is_active
Tokens ==
    {m.token : m \in account.mail}
    \cup {Forged(Now, AccountActivationTokenGenerator_make_hash_value(u, Now)) :
            u \in account.users}

\* register(request, data): refused for the e-mail of an active account and
\* for the username of another account; else AccountService.register creates
\* the account inactive, or overwrites the username and the password of the
\* inactive account of that e-mail.
register(name, username, password) ==
    LET email == Email(name)
        answer(status, field) ==
            [Reply("register", email, status, field) EXCEPT
                !.registered = Registered(email), !.active = Active(email)]
    IN
    /\ IF Registered(email)
       THEN LET user == One(ByEmail(email)) IN
            IF user.is_active
            THEN account' = [account EXCEPT !.last = answer(400, "email")]
            ELSE IF \E u \in account.users : u.username = username /\ u.pk # user.pk
            THEN account' = [account EXCEPT !.last = answer(400, "username")]
            ELSE account' = [account EXCEPT
                    !.users = (@ \ {user})
                              \cup {[user EXCEPT !.username = username,
                                                 !.password = password]},
                    !.last = [answer(201, "") EXCEPT !.changed = TRUE]]
       ELSE IF \E u \in account.users : u.username = username
            THEN account' = [account EXCEPT !.last = answer(400, "username")]
            ELSE account' = [account EXCEPT
                    !.users = @ \cup {UserRow(account.next_pk, email, username,
                                              password, FALSE)},
                    !.next_pk = @ + 1,
                    !.last = [answer(201, "") EXCEPT !.changed = TRUE]]
    /\ UNCHANGED <<oldVars, race, covers, pair, site>>

\* account_verify_request(request, data): nothing for an unknown e-mail; the
\* Error(409) for an active account is raised inside the try and leaves as
\* the Error(500) of its except; else the activation mail is sent, and a
\* failure to send leaves as the Error(500) too.
account_verify_request(name, sent) ==
    LET email == Email(name)
        answer(status, field) ==
            [Reply("account_verify_request", email, status, field) EXCEPT
                !.registered = Registered(email), !.active = Active(email)]
    IN
    /\ IF ~Registered(email)
       THEN account' = [account EXCEPT !.last = answer(201, "")]
       ELSE LET user == One(ByEmail(email)) IN
            IF user.is_active
            THEN account' = [account EXCEPT !.last = answer(500, "email")]
            ELSE IF ~sent
            THEN account' = [account EXCEPT
                    !.last = [answer(500, "email") EXCEPT !.mailed = FALSE]]
            ELSE account' = [account EXCEPT
                    !.mail = @ \cup {[to |-> email, uid |-> user.pk,
                                      token |-> account_activation_token_make_token(user)]},
                    !.last = answer(201, "")]
    /\ UNCHANGED <<oldVars, race, covers, pair, site>>

\* account_verify_confirm(request, uidb64, token): User.objects.get raises for
\* a uid of no account, AccountService.account_verify_confirm raises for a
\* token that does not check (its bare raise is a RuntimeError), and the bare
\* except turns either into the Error(400) on token; else the account is
\* activated.
account_verify_confirm(uid, token) ==
    LET answer(status, field) ==
            [Reply("account_verify_confirm", "", status, field) EXCEPT
                !.uid = uid, !.token = token,
                !.registered = ByPk(uid) # {},
                !.active = \E u \in ByPk(uid) : u.is_active]
    IN
    /\ IF ByPk(uid) = {}
       THEN account' = [account EXCEPT !.last = answer(400, "token")]
       ELSE LET user == One(ByPk(uid)) IN
            IF account_activation_token_check_token(user, token)
            THEN account' = [account EXCEPT
                    !.users = (@ \ {user}) \cup {[user EXCEPT !.is_active = TRUE]},
                    !.used = @ \cup {token},
                    !.last = [answer(200, "") EXCEPT !.changed = ~user.is_active]]
            ELSE account' = [account EXCEPT !.last = answer(400, "token")]
    /\ UNCHANGED <<oldVars, race, covers, pair, site>>

\* login(request, data): 401 when authenticate returns None, 403 for an
\* inactive account it returned, else AccountService.login issues the JWT.
login(username, password) ==
    LET found == authenticate(account.users, account.backend, username, password)
        known == {u \in account.users : u.username = username /\ u.password = password}
        answer(status, field) ==
            [Reply("login", username, status, field) EXCEPT
                !.registered = known # {},
                !.active = \E u \in known : u.is_active]
    IN
    /\ IF found = {}
       THEN account' = [account EXCEPT !.last = answer(401, "password")]
       ELSE IF ~One(found).is_active
       THEN account' = [account EXCEPT !.last = answer(403, "account")]
       ELSE account' = [account EXCEPT !.last = [answer(201, "") EXCEPT !.jwt = TRUE]]
    /\ UNCHANGED <<oldVars, race, covers, pair, site>>

\* password_reset_request(request, data): User.objects.get raises DoesNotExist
\* for an unknown e-mail, which leaves as the Error(500) of the except, as
\* does a failure to send; else the reset mail is sent.
password_reset_request(name, sent) ==
    LET email == Email(name)
        answer(status, field) ==
            [Reply("password_reset_request", email, status, field) EXCEPT
                !.registered = Registered(email), !.active = Active(email)]
    IN
    /\ IF ~Registered(email)
       THEN account' = [account EXCEPT !.last = answer(500, "email")]
       ELSE LET user == One(ByEmail(email)) IN
            IF ~sent
            THEN account' = [account EXCEPT
                    !.last = [answer(500, "email") EXCEPT !.mailed = FALSE]]
            ELSE account' = [account EXCEPT
                    !.mail = @ \cup {[to |-> email, uid |-> user.pk,
                                      token |-> password_reset_token_make_token(user)]},
                    !.last = answer(201, "")]
    /\ UNCHANGED <<oldVars, race, covers, pair, site>>

InitAccount ==
    /\ pc = [c \in Conns |-> "idle"]
    /\ impl = [c \in Conns |-> "none"]
    /\ relay = [c \in Conns |-> "NONE"]
    /\ out = [c \in Conns |-> <<>>]
    /\ frames = [c \in Conns |-> <<>>]
    /\ produced = [c \in Conns |-> <<>>]
    /\ ending = [c \in Conns |-> NoOutcome]
    /\ req = [c \in Conns |-> NoRequest]
    /\ resp = [c \in Conns |-> NoResponse]
    /\ llm = [c \in Conns |-> NoLlm]
    /\ chapters = Chapters
    /\ svc = NoCall
    /\ chain = NoChain
    /\ extract = NoExtract
    /\ op = NoOp
    /\ race = NoRace
    /\ account \in {[NoAccount EXCEPT !.backend = b] : b \in Backends}
    /\ covers = NoCovers
    /\ pair = NoPair
    /\ site = NoSite

NextAccount ==
    \/ \E name \in Names, password \in NewPasswords :
          \E username \in {name, "ann"} : register(name, username, password)
    \/ \E name \in Names, sent \in BOOLEAN : account_verify_request(name, sent)
    \/ \E uid \in Uids, token \in Tokens : account_verify_confirm(uid, token)
    \/ \E username \in Names, password \in Passwords : login(username, password)
    \/ \E name \in Names, sent \in BOOLEAN : password_reset_request(name, sent)

SpecAccount == InitAccount /\ [][NextAccount]_vars

\* C23: account_verify_request and password_reset_request answer the same 201
\* whether or not an account of the e-mail exists (the mail, where one is
\* sent, going out).
C23_SameAnswerForAnyEmail ==
    (account.last.name \in {"account_verify_request", "password_reset_request"}
        /\ account.last.mailed) =>
        account.last.status = 201

\* The request answered last was a login with the username and the password
\* of an account that is not active.
InactiveLogin ==
    account.last.name = "login" /\ account.last.registered /\ ~account.last.active

\* The step is an account_verify_confirm that took the token of its link.
Confirmed ==
    /\ account' # account
    /\ account'.last.name = "account_verify_confirm"
    /\ account'.last.status = 200

\* C24: an account that register created or overwrote is inactive; an account
\* becomes active only in an account_verify_confirm whose token checks for
\* it; and a login with the credentials of an inactive account is answered
\* 403 and gets no JWT.
C24_InactiveUntilConfirmed ==
    /\ [](/\ (account.last.name = "register" /\ account.last.status = 201) =>
                \E u \in ByEmail(account.last.subject) : ~u.is_active
          /\ InactiveLogin => (account.last.status = 403 /\ ~account.last.jwt))
    /\ [][\A u \in account.users :
            (~u.is_active /\ \E v \in account'.users : v.pk = u.pk /\ v.is_active) =>
                /\ Confirmed
                /\ account'.last.uid = u.pk
                /\ account_activation_token_check_token(u, account'.last.token)]_vars

\* C25: an activation token is accepted only while the account of its link is
\* inactive, so no token is accepted twice: an account_verify_confirm with a
\* token that was accepted before is answered with the 400 on token and
\* leaves the accounts as they are.
C25_TokenUsedOnce ==
    /\ []((account.last.name = "account_verify_confirm" /\ account.last.status = 200) =>
             ~account.last.active)
    /\ [][(/\ account' # account
           /\ account'.last.name = "account_verify_confirm"
           /\ account'.last.token \in account.used) =>
              /\ account'.last.status = 400
              /\ account'.last.field = "token"
              /\ account'.users = account.users
              /\ account'.used = account.used]_vars

\* C25, its case: a token was accepted and its account activated, and the
\* same link was then refused.
C25_Witness ==
    /\ account.last.name = "account_verify_confirm"
    /\ account.last.token \in account.used
    /\ account.last.status = 400
    /\ \E u \in ByPk(account.last.uid) :
          /\ u.is_active
          /\ [to |-> u.email, uid |-> u.pk, token |-> account.last.token] \in account.mail

\* ------------------------------------------------------ books and cover files

\* save_cover_image(cover_image): the path of the image, "" for None, and the
\* files after it: the file is written when no file of the path exists.
save_cover_image(cover_image) == IF cover_image = None THEN "" ELSE generate_hash_path(cover_image)
Saved(files, cover_image) ==
    IF cover_image = None THEN files ELSE files \cup {generate_hash_path(cover_image)}

\* A book transaction that has returned.
BookDone(name) == [pc |-> "done", name |-> name, book |-> NoBook, path |-> ""]

\* The book rows a transaction reads: the committed rows, without the row it
\* has deleted itself.
Visible(p) ==
    IF covers.proc[p].name = "delete_book" /\ covers.proc[p].pc \in {"check", "remove", "commit"}
    THEN {b \in covers.books : b.id # covers.proc[p].book.id}
    ELSE covers.books

\* BookService.create_book(...), up to Book.objects.create: its argument
\* save_cover_image(cover_image) is evaluated first.
tx_create_book(p, cover_image) ==
    /\ covers.proc[p].pc \in {"idle", "done"}
    /\ covers.next_id <= MaxBookId
    /\ covers' = [covers EXCEPT
          !.files = Saved(@, cover_image),
          !.proc[p] = [pc |-> "insert", name |-> "create_book", book |-> NoBook,
                       path |-> save_cover_image(cover_image)]]
    /\ UNCHANGED <<oldVars, race, account, pair, site>>

\* Book.objects.create(cover_image_path=...), the author relation and the
\* commit of the transaction.
tx_create_book_insert(p) ==
    /\ covers.proc[p].pc = "insert"
    /\ covers' = [covers EXCEPT
          !.books = @ \cup {BookRow(covers.next_id, covers.proc[p].path)},
          !.next_id = @ + 1,
          !.proc[p] = BookDone("create_book")]
    /\ UNCHANGED <<oldVars, race, account, pair, site>>

\* BookService.update_book(book, data, cover_image), up to book.save(): a
\* cover image given is saved and its path set on the book object.
tx_update_book(p, book, cover_image) ==
    /\ covers.proc[p].pc \in {"idle", "done"}
    /\ book \in covers.books
    /\ covers' = [covers EXCEPT
          !.files = Saved(@, cover_image),
          !.proc[p] = [pc |-> "save", name |-> "update_book",
                       book |-> IF cover_image = None THEN book
                                ELSE [book EXCEPT !.cover_image_path =
                                                     save_cover_image(cover_image)],
                       path |-> ""]]
    /\ UNCHANGED <<oldVars, race, account, pair, site>>

\* book.save(): the UPDATE of the row of its id with the fields of the object,
\* or an INSERT when the row is gone, and the commit.
tx_update_book_save(p) ==
    /\ covers.proc[p].pc = "save"
    /\ \A q \in Procs \ {p} :
          ~(covers.proc[q].name = "delete_book" /\ covers.proc[q].pc # "done"
                /\ covers.proc[q].book.id = covers.proc[p].book.id)
    /\ covers' = [covers EXCEPT
          !.books = {b \in @ : b.id # covers.proc[p].book.id} \cup {covers.proc[p].book},
          !.proc[p] = BookDone("update_book")]
    /\ UNCHANGED <<oldVars, race, account, pair, site>>

\* BookService.delete_book(book), up to its filter: the path is read and
\* book.delete() deletes the row within the transaction. The DELETE waits for
\* another transaction that holds the row.
tx_delete_book(p, book) ==
    /\ covers.proc[p].pc \in {"idle", "done"}
    /\ book \in covers.books
    /\ \A q \in Procs \ {p} :
          ~(covers.proc[q].name = "delete_book" /\ covers.proc[q].pc # "done"
                /\ covers.proc[q].book.id = book.id)
    /\ covers' = [covers EXCEPT
          !.proc[p] = [pc |-> IF book.cover_image_path # "" THEN "check" ELSE "commit",
                       name |-> "delete_book", book |-> book,
                       path |-> book.cover_image_path]]
    /\ UNCHANGED <<oldVars, race, account, pair, site>>

\* Book.objects.filter(cover_image_path=cover_image_path).exists()
tx_delete_book_check(p) ==
    /\ covers.proc[p].pc = "check"
    /\ LET other_books_with_same_cover ==
              \E b \in Visible(p) : b.cover_image_path = covers.proc[p].path
       IN covers' = [covers EXCEPT
             !.proc[p].pc = IF other_books_with_same_cover THEN "commit" ELSE "remove"]
    /\ UNCHANGED <<oldVars, race, account, pair, site>>

\* os.path.exists(full_path) and os.remove(full_path)
tx_delete_book_remove(p) ==
    /\ covers.proc[p].pc = "remove"
    /\ covers' = [covers EXCEPT !.files = @ \ {covers.proc[p].path},
                                !.proc[p].pc = "commit"]
    /\ UNCHANGED <<oldVars, race, account, pair, site>>

\* delete_book returns and its transaction commits.
tx_delete_book_commit(p) ==
    /\ covers.proc[p].pc = "commit"
    /\ covers' = [covers EXCEPT
          !.books = {b \in @ : b.id # covers.proc[p].book.id},
          !.proc[p] = BookDone("delete_book")]
    /\ UNCHANGED <<oldVars, race, account, pair, site>>

InitCovers == Init

NextCovers ==
    \E p \in Procs :
        \/ \E cover_image \in Images \cup {None} : tx_create_book(p, cover_image)
        \/ tx_create_book_insert(p)
        \/ \E book \in covers.books, cover_image \in Images \cup {None} :
              tx_update_book(p, book, cover_image)
        \/ tx_update_book_save(p)
        \/ \E book \in covers.books : tx_delete_book(p, book)
        \/ tx_delete_book_check(p)
        \/ tx_delete_book_remove(p)
        \/ tx_delete_book_commit(p)

SpecCovers == InitCovers /\ [][NextCovers]_vars

\* No transaction on the books is under way.
BooksAtRest == \A p \in Procs : covers.proc[p].pc \in {"idle", "done"}

\* C26: after any interleaving of create_book, update_book and delete_book,
\* every book with a cover_image_path refers to a cover file that exists.
C26_CoverFilesExist ==
    BooksAtRest =>
        \A b \in covers.books : b.cover_image_path # "" => b.cover_image_path \in covers.files

\* ------------------------------------------------- from the model to the client

\* C27: a generate_outline request that passes the checks gets a stream that
\* ends with the completion frame and holds no error frame, its content frames
\* carrying the non-empty fragments of the model in order: nothing but the
\* model can fail between the model and the client.
C27_WorkingPullChain ==
    \A c \in Conns :
        (impl[c] = "ai_endpoint" /\ resp[c] = Streaming /\ Finished(c)) =>
            /\ \A i \in 1..Len(frames[c]) : ~IsError(frames[c][i])
            /\ frames[c] # <<>> /\ frames[c][Len(frames[c])] = CompleteFrameA
            /\ ContentsOf(frames[c]) = NonEmpty(produced[c])

\* ------------------------------------------------- the labels of the history

\* C28: every history turn of an assembled prompt, of the outline chain and of
\* the chapter chain, names the chapter number of the chapter of the context
\* window whose outline or text it carries, whatever chapters the book holds.
C28_HistoryLabels ==
    (OutlinePrompt \/ ChapterPrompt) =>
        LET m == chain.messages
            k == Cardinality(WindowStored)
        IN
        /\ Len(m) = 4 + 2 * k
        /\ \A i \in 1..k : m[2 + 2 * i].number = Nth(WindowStored, i)

\* ------------------------------------------------- the two relays side by side

\* Both generators are started and enter their try.
PairStart ==
    /\ \A i \in Impls : pair.side[i].pc = "begin"
    /\ pair' = [pair EXCEPT !.side = [i \in Impls |-> [@[i] EXCEPT !.pc = "loop"]]]
    /\ UNCHANGED <<oldVars, race, account, covers, site>>

\* The turn of a relay on what the source gave, as in Pull.
SidePull(i, side, outcome) ==
    LET r == RelayOn(i, outcome)
        waiting == side.out \o [n \in 1..Len(r.out) |-> [frame |-> r.out[n], to |-> r.to]]
    IN [side EXCEPT !.out = waiting,
                    !.pc = IF r.pc = "raised" THEN "raised"
                           ELSE IF waiting # <<>> THEN "yield" ELSE "loop"]

\* Both relays pull the next item of the source, which is the same for both.
PairPull ==
    /\ \A i \in Impls : CanPull(pair.side[i].pc, pair.side[i].out)
    /\ \E outcome \in GeneratorNext(pair.produced, pair.ending.kind # "none") :
          pair' = [pair EXCEPT
             !.produced = IF outcome.kind = "chunk" THEN Append(@, outcome.chunk) ELSE @,
             !.ending = IF outcome.kind # "chunk" /\ @.kind = "none" THEN outcome ELSE @,
             !.side = [i \in Impls |-> SidePull(i, @[i], outcome)]]
    /\ UNCHANGED <<oldVars, race, account, covers, site>>

\* The response of a relay takes the frame it yielded, as in Emit.
SideEmit(side) ==
    [side EXCEPT !.frames = Append(@, Head(side.out).frame),
                 !.relay = Head(side.out).to,
                 !.out = Tail(@),
                 !.pc = IF Tail(side.out) # <<>> THEN "yield"
                        ELSE AfterYield(Head(side.out).to)]

\* Both responses take the frame their relay yielded.
PairEmit ==
    /\ \A i \in Impls : pair.side[i].pc = "yield" /\ pair.side[i].out # <<>>
    /\ pair' = [pair EXCEPT !.side = [i \in Impls |-> SideEmit(@[i])]]
    /\ UNCHANGED <<oldVars, race, account, covers, site>>

\* Both generators return.
PairReturn ==
    /\ \A i \in Impls : pair.side[i].pc = "final"
    /\ pair' = [pair EXCEPT !.side = [i \in Impls |-> [@[i] EXCEPT !.pc = "returned"]]]
    /\ UNCHANGED <<oldVars, race, account, covers, site>>

InitRelays == Init

NextRelays == PairStart \/ PairPull \/ PairEmit \/ PairReturn

SpecRelays == InitRelays /\ [][NextRelays]_vars

\* A frame without what the relays may differ in: its encoding, and which of
\* the two completion frames it is.
Plain(f) == IF IsCompletion(f) THEN Frame("complete", <<>>, "") ELSE [f EXCEPT !.enc = ""]
PlainFrames(fs) == [n \in 1..Len(fs) |-> Plain(fs[n])]
PlainWaiting(o) == [n \in 1..Len(o) |-> [frame |-> Plain(o[n].frame), to |-> o[n].to]]

\* C29: fed the same fragments with the same ending, event_stream of the
\* endpoint and _event_stream of sse_util stand at the same place in the same
\* state after every step and have yielded and emitted the same frames, up to
\* the completion frame (variant A, variant B) and the encoding (text, bytes).
C29_RelaysAgree ==
    LET a == pair.side["ai_endpoint"]
        b == pair.side["sse_util"]
    IN
    /\ a.pc = b.pc
    /\ a.relay = b.relay
    /\ PlainFrames(a.frames) = PlainFrames(b.frames)
    /\ PlainWaiting(a.out) = PlainWaiting(b.out)
    /\ \A n \in 1..Len(a.frames) :
          /\ a.frames[n].enc = "str" /\ b.frames[n].enc = "bytes"
          /\ IsCompletion(a.frames[n]) =>
                (a.frames[n] = CompleteFrameA /\ b.frames[n] = CompleteFrameB)

\* C29, its cases: a text, an empty fragment and a clean end, both relays
\* returned after a content frame and their completion frames; and a failure
\* after a text, both relays returned after a content frame and the error frame.
C29_Witness ==
    LET a == pair.side["ai_endpoint"]
        b == pair.side["sse_util"]
    IN
    /\ a.pc = "returned" /\ b.pc = "returned"
    /\ Len(pair.produced) = 2 /\ pair.produced[2] = ""
    /\ pair.ending.kind = "end"
    /\ Len(a.frames) = 2 /\ IsContent(a.frames[1]) /\ a.frames[2] = CompleteFrameA
    /\ Len(b.frames) = 2 /\ IsContent(b.frames[1]) /\ b.frames[2] = CompleteFrameB

\* ------------------------------------------------- the chapter endpoints

\* can_delete(user, book), can_update(user, book), where they return; their
\* relation filters raise TypeError for the anonymous user, who is no
\* administrator.
can_delete(user, book_id) == is_admin(user) \/ is_author(user, book_id)
can_update(user, book_id) ==
    is_admin(user) \/ is_author(user, book_id) \/ is_co_author(user, book_id)
can_update_raises(user, book_id) == ~is_admin(user) /\ user = Anonymous

\* The response of a handler that returns.
Ok(status) == [status |-> status, field |-> ""]

\* The checks of get_chapter: the book, the permission, then the chapter.
get_chapter_checks(stored, user, book_id, chapter_number) ==
    IF book_id \notin DOMAIN Books THEN Error(404, "book_id")
    ELSE IF can_view_raises(user, book_id) THEN Uncaught("TypeError")
    ELSE IF ~can_view(user, book_id) THEN Error(403, "permission")
    ELSE IF <<book_id, chapter_number>> \notin stored THEN Error(404, "chapter_number")
    ELSE Ok(200)

\* The checks of update_chapter: the book, the chapter, then the permission.
update_chapter_checks(stored, user, book_id, chapter_number) ==
    IF book_id \notin DOMAIN Books THEN Error(404, "book_id")
    ELSE IF <<book_id, chapter_number>> \notin stored THEN Error(404, "chapter_number")
    ELSE IF can_update_raises(user, book_id) THEN Uncaught("TypeError")
    ELSE IF ~can_update(user, book_id) THEN Error(403, "permission")
    ELSE Ok(200)

\* The checks of delete_chapter: the book, the chapter, then the permission.
delete_chapter_checks(stored, user, book_id, chapter_number) ==
    IF book_id \notin DOMAIN Books THEN Error(404, "book_id")
    ELSE IF <<book_id, chapter_number>> \notin stored THEN Error(404, "chapter_number")
    ELSE IF can_update_raises(user, book_id) THEN Uncaught("TypeError")
    ELSE IF ~can_delete(user, book_id) THEN Error(403, "permission")
    ELSE Ok(204)

\* The request to a chapter endpoint and its response.
Site(name, user, book_id, chapter_number, answer) ==
    [name |-> name, user |-> user, book_id |-> book_id,
     chapter_number |-> chapter_number,
     stored |-> <<book_id, chapter_number>> \in chapters, answer |-> answer]

\* generate_outline(request, data), up to its response.
endpoint_generate_outline(user, book_id, chapter_number) ==
    /\ site' = Site("generate_outline", user, book_id, chapter_number,
                    generate_outline_checks(chapters, user, book_id, chapter_number))
    /\ UNCHANGED <<oldVars, race, account, covers, pair>>

\* get_chapter(request, book_id, chapter_number)
endpoint_get_chapter(user, book_id, chapter_number) ==
    /\ site' = Site("get_chapter", user, book_id, chapter_number,
                    get_chapter_checks(chapters, user, book_id, chapter_number))
    /\ UNCHANGED <<oldVars, race, account, covers, pair>>

\* update_chapter(request, book_id, chapter_number, data): past the checks,
\* ChapterService.update_chapter, whose Error(400) is the response when it
\* refuses the new number.
endpoint_update_chapter(user, book_id, chapter_number, data) ==
    LET answer == update_chapter_checks(chapters, user, book_id, chapter_number)
        row == <<book_id, chapter_number>>
        taken == data.given /\ <<book_id, data.chapter_number>> \in chapters \ {row}
    IN
    /\ site' = Site("update_chapter", user, book_id, chapter_number,
                    IF answer = Ok(200) /\ taken THEN Error(400, "chapter_number")
                    ELSE answer)
    /\ IF answer = Ok(200)
       THEN chapters' = IF data.given /\ ~taken
                        THEN (chapters \ {row}) \cup {<<book_id, data.chapter_number>>}
                        ELSE chapters
       ELSE UNCHANGED chapters
    /\ UNCHANGED <<relayVars, svc, callVars, race, account, covers, pair>>

\* delete_chapter(request, book_id, chapter_number): past the checks,
\* ChapterService.delete_chapter.
endpoint_delete_chapter(user, book_id, chapter_number) ==
    LET answer == delete_chapter_checks(chapters, user, book_id, chapter_number)
        row == <<book_id, chapter_number>>
    IN
    /\ site' = Site("delete_chapter", user, book_id, chapter_number, answer)
    /\ IF answer = Ok(204)
       THEN chapters' = chapters \ {row}
       ELSE UNCHANGED chapters
    /\ UNCHANGED <<relayVars, svc, callVars, race, account, covers, pair>>

InitSite == Init

NextSite ==
    \E user \in Callers, book_id \in BookIds, chapter_number \in ChapterNumbers :
        \/ endpoint_generate_outline(user, book_id, chapter_number)
        \/ endpoint_get_chapter(user, book_id, chapter_number)
        \/ \E data \in {Number(n) : n \in ChapterNumbers} \cup {NoNumber} :
              endpoint_update_chapter(user, book_id, chapter_number, data)
        \/ endpoint_delete_chapter(user, book_id, chapter_number)

SpecSite == InitSite /\ [][NextSite]_vars

\* The caller of the request lacks the permission its endpoint asks for.
LacksPermission ==
    CASE site.name \in {"generate_outline", "get_chapter"} ->
            ~can_view_raises(site.user, site.book_id) /\ ~can_view(site.user, site.book_id)
      [] site.name = "update_chapter" ->
            ~can_update_raises(site.user, site.book_id) /\ ~can_update(site.user, site.book_id)
      [] site.name = "delete_chapter" ->
            ~can_update_raises(site.user, site.book_id) /\ ~can_delete(site.user, site.book_id)
      [] OTHER -> FALSE

\* C30: at every chapter endpoint a caller who lacks the permission on an
\* existing book is answered 403 on permission, whether the chapter of the
\* request is stored or not.
C30_ForbiddenBeforeLookup ==
    (site.name # "" /\ site.book_id \in DOMAIN Books /\ LacksPermission) =>
        site.answer = Error(403, "permission")

====
